---- MODULE Spec2Model ----
(***************************************************************************)
(* Looking-Glass: signed link tokens (bot/web.py), TTL catalog cache       *)
(* (bot/cache.py), get-or-scan callers (bot/__main__.py) and direct range  *)
(* delivery (bot/web.py, _stream_direct).                                  *)
(*                                                                         *)
(* Text is modelled as sequences of Unicode code points and byte strings   *)
(* as sequences of 0..255, so that base64, UTF-8, int() and str.split are  *)
(* computed rather than assumed.                                           *)
(***************************************************************************)
EXTENDS Integers, Sequences, FiniteSets, TLC

(***************************************************************************)
(* State.                                                                  *)
(***************************************************************************)
\* clock and link tokens (web.py)
VARIABLES
    now,        \* time.time(), whole seconds
    link,       \* <<>> or <<[path, exp, token, video]>>: the link last minted
    presented,  \* the token string last handed to verify_token
    verdict,    \* <<>> or <<result of that verify_token call>>
    verifiedAt, \* clock value of that call
    requests,   \* number of /stream requests made with the link's token
    served,     \* number of those handed to a streaming strategy
    outcome     \* answer to the last /stream request

tokenVars == <<link, presented, verdict, verifiedAt, requests, served, outcome>>

\* catalog caches and get-or-scan tasks (cache.py, __main__.py)
VARIABLES
    cache,          \* per category: LibraryCache._data ("None" or a catalog), ._ts
    rootConfigured, \* per category: cfg.<category>_root_path is set
    lockHolder,     \* per category: task holding the asyncio.Lock, or "free"
    lockWaiters,    \* per category: FIFO of tasks suspended in acquire()
    pc,             \* per task: "idle", "wait" (suspended in acquire), "recheck"
                    \* (woken with the lock), "scan" (awaiting the executor)
    task,           \* per task: which command / loop body it runs
    cat,            \* per task: category of the current ensure_* call
    todo,           \* per task: categories still to be called
    ret,            \* per browse task and category: what the call returned
    scans,          \* per category: number of scans started
    scanFailed,     \* per category: the latest scan raised (and was logged)
    lastSet         \* per category: value and time of the latest set()

cacheVars == <<cache, rootConfigured, lockHolder, lockWaiters, pc, task, cat,
               todo, ret, scans, scanFailed, lastSet>>

\* one direct /stream request (web.py)
VARIABLES
    file_size,     \* size of the source; the byte at offset i is i
    range_header,  \* request.headers.get('Range'), <<>> when absent
    dpc,           \* handler position: "start", "get", "write", "finally", "done"
    status,        \* status of the response (0 before it is decided)
    start,         \* first offset to deliver
    end,           \* last offset to deliver
    contentLength, \* Content-Length header (-1 when not sent)
    contentRange,  \* <<>> or <<first, last, total>> of the Content-Range header
    queue,         \* items in the asyncio.Queue
    putters,       \* items of queue.put() coroutines waiting for room
    held,          \* <<>> or the chunk the handler is writing
    stop,          \* stop_flag['stop']
    ppc,           \* producer position: "idle", "loop", "blocked",
                   \* "blocked_err", "eof", "blocked_eof", "done"
    pos,           \* producer's read offset
    body,          \* bytes written to the response so far
    clientGone,    \* the client has disconnected
    srcFailed,     \* the remote session or a read raised
    putTimedOut,   \* a queue put exceeded the producer's timeout
    returned       \* what the handler returned: "none", "resp", "416", "500"

directVars == <<file_size, range_header, dpc, status, start, end, contentLength,
                contentRange, queue, putters, held, stop, ppc, pos, body,
                clientGone, srcFailed, putTimedOut, returned>>

\* one request to a token endpoint (web.py: /d, /stream, /video, /subtitle)
VARIABLES
    endpoint,   \* "none" or the route the request went to
    quality,    \* the quality query parameter of a /stream request (<<>>: absent)
    ffmpeg,     \* _find_ffmpeg() found the encoder binary
    probe,      \* what probing the video stream gave
    decision,   \* what the handler did: a status or the strategy it called
    target_height, \* the height _stream_with_transcoding was called with:
                   \* 0 for None, -1 when it was not called
    remote_calls,  \* the remote calls made for the request, each with the
                   \* path it was made on
    body_kind,     \* what the response body is made of: "none", "file",
                   \* "page", "json"
    body_path      \* <<>> or the remote file whose bytes go into the body

gateVars == <<endpoint, quality, ffmpeg, probe, decision, target_height,
              remote_calls, body_kind, body_path>>

\* one plain download (web.py, handle_download) after the pre-flight checks
VARIABLES
    missing,     \* the token's path does not exist on the remote
    dl_size,     \* size of the source; the byte at offset i is i
    dl_pc,       \* handler position: "idle", "prepare", "get", "write", "done"
    dl_status,   \* status of the prepared response (0 before)
    dl_queue,    \* items in the asyncio.Queue
    dl_putters,  \* items of queue.put() coroutines waiting for room
    dl_held,     \* <<>> or the chunk the handler is writing
    dl_stop,     \* stop_flag["stop"]
    dl_ppc,      \* reader thread: "idle", "start", "loop", "blocked", "eof",
                 \* "blocked_eof", "done"
    dl_pos,      \* reader's offset
    dl_body,     \* bytes written to the response so far
    dl_gone,     \* the client has disconnected
    dl_session,  \* the reader's remote session: "none", "open", "closed"
    dl_failed    \* connecting, opening or reading raised

dlVars == <<missing, dl_size, dl_pc, dl_status, dl_queue, dl_putters, dl_held,
            dl_stop, dl_ppc, dl_pos, dl_body, dl_gone, dl_session, dl_failed>>

\* one remux or transcode request (web.py, run_ffmpeg) after the pre-flight
\* checks; source chunks and encoder output blocks are numbered from 1
VARIABLES
    enc_size,      \* number of chunks the source file holds
    enc_pc,        \* handler: "idle", "prepare", "read", "write",
                   \* "await_feeder", "await_proc", "done"
    enc_status,    \* status of the prepared response (0 before)
    enc_fpc,       \* feeder task: "idle", "start", "loop", "drain", "closing", "done"
    enc_pos,       \* chunks the feeder has read
    enc_proc,      \* encoder process: "none", "running", "hung", "exited"
    enc_in,        \* chunks written to the encoder's stdin and not yet consumed
    enc_pending,   \* output blocks the encoder has ready but not yet written
    enc_emitted,   \* output blocks the encoder has written to its stdout
    enc_out,       \* blocks in the stdout pipe, not yet read by the handler
    enc_held,      \* <<>> or the block the handler is writing
    enc_body,      \* blocks written to the response so far
    enc_stop,      \* stop_flag['stop']
    enc_gone,      \* the client has disconnected
    enc_stdin,     \* the encoder's stdin pipe: "open", "closed"
    enc_session,   \* the feeder's remote session: "none", "open", "closed"
    enc_crashed,   \* the encoder process died before finishing
    enc_err        \* diagnostics in the encoder's stderr pipe, which is never
                   \* read

encVars == <<enc_size, enc_pc, enc_status, enc_fpc, enc_pos, enc_proc, enc_in,
             enc_pending, enc_emitted, enc_out, enc_held, enc_body, enc_stop,
             enc_gone, enc_stdin, enc_session, enc_crashed, enc_err>>

VARIABLES
    remote_tree,  \* the entries the remote holds
    unlistable,   \* the directories whose listing raises IOError
    sessions,     \* every session _connect opened, in order: "open", "closed"
    op_kind,      \* per operation: "none" or the function that was called
    op_pc,        \* per operation: "idle", "body", "finally_return",
                  \* "finally_raise", "returned", "raised"
    op_session,   \* per operation: index of its session in sessions, 0: none
    op_result,    \* per operation: the (group, title) pairs a scan found
    op_catalog,   \* per operation: the catalog a scan returned, as records
                  \* of a group key and its list of titles
    op_failed,    \* per scan: the directories whose listing raised in it
    scan_log      \* the records written to the "Looking-Glass" logger

VARIABLES
    op_args,      \* per operation: the kind and name a resolve was called with
    op_files,     \* per operation: the (path, size) list a resolve returned
    op_links,     \* per operation: the (filename, url, size) list it built
    op_minted     \* per operation: the time.time() its links were signed at

resVars == <<op_args, op_files, op_links, op_minted>>

VARIABLES
    th_handler,   \* per request: "none" or the handler that serves it
    th_todo,      \* per request: the remote calls the handler has yet to make,
                  \* each with the way its code is run
    th_done       \* per request: the remote calls made, each with the thread
                  \* that executed it

\* the /stream requests served at the same time (web.py)
VARIABLES
    ts_pc,        \* per request: "idle", "direct", "prepared", "running",
                  \* "done"
    ts_strategy,  \* per request: "none", "direct", "remux", "transcode"
    ts_proc       \* per request: its encoder process, "none", "alive", "exited"

poolVars == <<ts_pc, ts_strategy, ts_proc>>

callVars == <<th_handler, th_todo, th_done, poolVars>>

scanVars == <<remote_tree, unlistable, sessions, op_kind, op_pc, op_session,
              op_result, op_catalog, op_failed, scan_log, resVars, callVars>>

extVars == <<gateVars, dlVars, encVars, scanVars>>

vars == <<now, tokenVars, cacheVars, directVars, extVars>>

(***************************************************************************)
(* Characters used by the token format and the Range header.               *)
(***************************************************************************)
DOT == 46
DASH == 45
EQUALS == 61
PLUS == 43
UNDERSCORE == 95
SPACE == 32
ZERO == 48

\* "bytes=" as code points (web.py: range_header.startswith('bytes='))
BytesPrefix == <<98, 121, 116, 101, 115, 61>>

(***************************************************************************)
(* Generic sequence helpers (Python str / bytes primitives).               *)
(***************************************************************************)
\* str.split(sep) for a one-character separator: always at least one part.
Split(s, sep) ==
    LET cuts == SelectSeq([i \in 1..Len(s) |-> i], LAMBDA i : s[i] = sep)
        edge(k) == IF k = 0 THEN 0
                   ELSE IF k > Len(cuts) THEN Len(s) + 1
                   ELSE cuts[k]
    IN  [k \in 1..(Len(cuts) + 1) |->
            SubSeq(s, edge(k - 1) + 1, edge(k) - 1)]

\* "".join(parts): the parts one after the other
RECURSIVE JoinRange(_, _, _)
JoinRange(parts, lo, hi) ==
    IF lo > hi THEN <<>>
    ELSE IF lo = hi THEN parts[lo]
    ELSE JoinRange(parts, lo, (lo + hi) \div 2)
             \o JoinRange(parts, (lo + hi) \div 2 + 1, hi)

Concat(parts) == JoinRange(parts, 1, Len(parts))

\* str.startswith
StartsWith(s, prefix) ==
    /\ Len(s) >= Len(prefix)
    /\ SubSeq(s, 1, Len(prefix)) = prefix

\* str.endswith
EndsWith(s, suffix) ==
    /\ Len(s) >= Len(suffix)
    /\ SubSeq(s, Len(s) - Len(suffix) + 1, Len(s)) = suffix

\* str.lower() on the ASCII letters
LowerChar(c) == IF c >= 65 /\ c <= 90 THEN c + 32 ELSE c

Lower(s) == [i \in 1..Len(s) |-> LowerChar(s[i])]

(***************************************************************************)
(* f"{exp_ts}" and int(exp_s).                                             *)
(***************************************************************************)
RECURSIVE DigitsOf(_)
DigitsOf(n) ==
    IF n < 10 THEN <<ZERO + n>>
    ELSE Append(DigitsOf(n \div 10), ZERO + (n % 10))

\* str(int): decimal, '-' for negatives, no leading zeros
IntToStr(n) == IF n < 0 THEN <<DASH>> \o DigitsOf(0 - n) ELSE DigitsOf(n)

IsDigit(c) == c >= ZERO /\ c <= ZERO + 9

IsSpace(c) == c \in {9, 10, 11, 12, 13, SPACE}

RECURSIVE StripLeft(_)
StripLeft(s) ==
    IF s # <<>> /\ IsSpace(Head(s)) THEN StripLeft(Tail(s)) ELSE s

RECURSIVE StripRight(_)
StripRight(s) ==
    IF s # <<>> /\ IsSpace(s[Len(s)])
    THEN StripRight(SubSeq(s, 1, Len(s) - 1))
    ELSE s

\* digits with single underscores between digits; acc is the value so far,
\* prev is TRUE when the previous character was a digit
RECURSIVE ParseDigits(_, _, _)
ParseDigits(s, acc, prev) ==
    IF s = <<>> THEN [ok |-> prev, val |-> acc]
    ELSE IF IsDigit(Head(s))
         THEN ParseDigits(Tail(s), acc * 10 + (Head(s) - ZERO), TRUE)
         ELSE IF Head(s) = UNDERSCORE /\ prev
              THEN ParseDigits(Tail(s), acc, FALSE)
              ELSE [ok |-> FALSE, val |-> 0]

\* int(s) for a str s: surrounding whitespace, an optional sign, decimal
\* digits; ok = FALSE stands for ValueError
ParseInt(s) ==
    LET t == StripRight(StripLeft(s))
        neg == t # <<>> /\ Head(t) = DASH
        unsigned == IF t # <<>> /\ Head(t) \in {DASH, PLUS} THEN Tail(t) ELSE t
        r == ParseDigits(unsigned, 0, FALSE)
    IN  IF r.ok
        THEN [ok |-> TRUE, val |-> IF neg THEN 0 - r.val ELSE r.val]
        ELSE [ok |-> FALSE, val |-> 0]

(***************************************************************************)
(* str.encode('utf-8') and bytes.decode('utf-8').                          *)
(* ok = FALSE stands for UnicodeEncodeError / UnicodeDecodeError.          *)
(***************************************************************************)
Utf8EncodeChar(c) ==
    IF c < 128 THEN <<c>>
    ELSE IF c < 2048 THEN <<192 + (c \div 64), 128 + (c % 64)>>
    ELSE IF c < 65536
         THEN <<224 + (c \div 4096), 128 + ((c \div 64) % 64), 128 + (c % 64)>>
         ELSE <<240 + (c \div 262144), 128 + ((c \div 4096) % 64),
                128 + ((c \div 64) % 64), 128 + (c % 64)>>

IsSurrogate(c) == c >= 55296 /\ c <= 57343

\* str.encode(): UnicodeEncodeError (ok = FALSE) on a lone surrogate
Utf8Encode(s) ==
    IF \E i \in 1..Len(s) : IsSurrogate(s[i]) THEN [ok |-> FALSE, val |-> <<>>]
    ELSE [ok |-> TRUE,
          val |-> Concat([i \in 1..Len(s) |-> Utf8EncodeChar(s[i])])]

IsCont(b) == b >= 128 /\ b <= 191

\* the length of the sequence a lead byte announces
Utf8Size(b1) ==
    IF b1 < 128 THEN 1 ELSE IF b1 <= 223 THEN 2 ELSE IF b1 <= 239 THEN 3 ELSE 4

\* the character of the sequence that starts at b[i]
Utf8DecodeChar(b, i) ==
    IF b[i] < 128 THEN b[i]
    ELSE IF b[i] <= 223 THEN (b[i] - 192) * 64 + (b[i + 1] - 128)
    ELSE IF b[i] <= 239
    THEN (b[i] - 224) * 4096 + (b[i + 1] - 128) * 64 + (b[i + 2] - 128)
    ELSE (b[i] - 240) * 262144 + (b[i + 1] - 128) * 4096
         + (b[i + 2] - 128) * 64 + (b[i + 3] - 128)

\* the sequence of size bytes that starts at b[i] is well formed: a lead
\* byte, as many continuation bytes as it asks for and no more, no overlong
\* form, no surrogate, nothing above U+10FFFF
Utf8SequenceAt(b, i, size) ==
    /\ b[i] < 128 \/ (b[i] >= 194 /\ b[i] <= 244)
    /\ i + size - 1 <= Len(b)
    /\ \A j \in (i + 1)..(i + size - 1) : IsCont(b[j])
    /\ i + size <= Len(b) => ~IsCont(b[i + size])
    /\ b[i] = 224 => b[i + 1] >= 160
    /\ b[i] = 237 => b[i + 1] <= 159
    /\ b[i] = 240 => b[i + 1] >= 144
    /\ b[i] = 244 => b[i + 1] <= 143

\* the characters of the sequences that start at the places starts
Utf8Chars(b, starts) ==
    IF /\ Len(b) > 0 => ~IsCont(b[1])
       /\ \A k \in 1..Len(starts) :
             Utf8SequenceAt(b, starts[k], Utf8Size(b[starts[k]]))
    THEN [ok |-> TRUE,
          val |-> [k \in 1..Len(starts) |-> Utf8DecodeChar(b, starts[k])]]
    ELSE [ok |-> FALSE, val |-> <<>>]

\* bytes.decode(): UnicodeDecodeError (ok = FALSE) on a malformed or
\* truncated sequence.  The characters start at the bytes that are no
\* continuation bytes
Utf8Decode(b) ==
    Utf8Chars(b, SelectSeq([i \in 1..Len(b) |-> i], LAMBDA i : ~IsCont(b[i])))

(***************************************************************************)
(* base64.urlsafe_b64encode / base64.urlsafe_b64decode.                    *)
(***************************************************************************)
\* the URL-safe alphabet: A-Z a-z 0-9 - _
B64Char(i) ==
    IF i < 26 THEN 65 + i
    ELSE IF i < 52 THEN 71 + i
    ELSE IF i < 62 THEN i - 4
    ELSE IF i = 62 THEN DASH ELSE UNDERSCORE

\* the four characters of a group of one, two or three bytes
B64Group(b) ==
    IF Len(b) = 1
    THEN <<B64Char(b[1] \div 4), B64Char((b[1] % 4) * 16), EQUALS, EQUALS>>
    ELSE IF Len(b) = 2
    THEN <<B64Char(b[1] \div 4), B64Char((b[1] % 4) * 16 + (b[2] \div 16)),
           B64Char((b[2] % 16) * 4), EQUALS>>
    ELSE <<B64Char(b[1] \div 4), B64Char((b[1] % 4) * 16 + (b[2] \div 16)),
           B64Char((b[2] % 16) * 4 + (b[3] \div 64)), B64Char(b[3] % 64)>>

\* the bytes in groups of three, the last group padded with '='
B64Encode(b) ==
    Concat([k \in 1..((Len(b) + 2) \div 3) |->
               B64Group(SubSeq(b, 3 * k - 2,
                               IF 3 * k <= Len(b) THEN 3 * k ELSE Len(b)))])

\* value of a character for the decoder, 64 when it is not in the alphabet;
\* urlsafe_b64decode maps '-' and '_' onto '+' and '/' and then accepts the
\* standard alphabet, so both spellings of 62 and 63 decode
B64Index(c) ==
    IF c >= 65 /\ c <= 90 THEN c - 65
    ELSE IF c >= 97 /\ c <= 122 THEN c - 71
    ELSE IF c >= 48 /\ c <= 57 THEN c + 4
    ELSE IF c \in {DASH, PLUS} THEN 62
    ELSE IF c \in {UNDERSCORE, 47} THEN 63
    ELSE 64

\* binascii.a2b_base64, non-strict: characters outside the alphabet are
\* skipped, a complete pad sequence ends the input, leftover sextets are an
\* error ("Incorrect padding")
IsB64Data(c) == B64Index(c) < 64

\* the sextets read before s[p]
B64DataBefore(s, p) == Cardinality({i \in 1..(p - 1) : IsB64Data(s[i])})

\* the '=' read since the last sextet, s[p] included
B64PadsAt(s, p) ==
    Cardinality({i \in 1..p :
                    s[i] = EQUALS /\ \A j \in i..p : ~IsB64Data(s[j])})

\* pads '=' after quad sextets of a group complete the padding
B64PadEnds(quad, pads) == quad >= 2 /\ quad + pads >= 4

\* the places at which the padding of a group of 2 or 3 sextets is complete
B64Stops(s) ==
    {p \in 1..Len(s) :
        /\ s[p] = EQUALS
        /\ B64PadEnds(B64DataBefore(s, p) % 4, B64PadsAt(s, p))}

\* the values of the characters data
B64Values(data) == [j \in 1..Len(data) |-> B64Index(data[j])]

\* the sextets decoded: those before the first stop, all when there is none
B64Used(s, v, stops) ==
    IF stops = {} THEN Len(v)
    ELSE B64DataBefore(s, CHOOSE p \in stops : \A q \in stops : p <= q)

\* byte i of the sextets v: three bytes out of every four sextets
B64Byte(v, i) ==
    IF (i - 1) % 3 = 0
    THEN v[4 * ((i - 1) \div 3) + 1] * 4 + (v[4 * ((i - 1) \div 3) + 2] \div 16)
    ELSE IF (i - 1) % 3 = 1
    THEN (v[4 * ((i - 1) \div 3) + 2] % 16) * 16
         + (v[4 * ((i - 1) \div 3) + 3] \div 4)
    ELSE (v[4 * ((i - 1) \div 3) + 3] % 4) * 64 + v[4 * ((i - 1) \div 3) + 4]

\* the result from the first used sextets of v; without a stop, leftover
\* sextets are the error
B64Result(v, stops, used) ==
    [ok |-> stops # {} \/ used % 4 = 0,
     val |-> [i \in 1..(3 * (used \div 4)
                        + (IF used % 4 = 2 THEN 1
                           ELSE IF used % 4 = 3 THEN 2 ELSE 0)) |->
                 B64Byte(v, i)]]

B64Finish(s, v, stops) == B64Result(v, stops, B64Used(s, v, stops))

B64Decode(s) ==
    B64Finish(s, B64Values(SelectSeq(s, IsB64Data)), B64Stops(s))

(***************************************************************************)
(* Signing helpers (web.py, LinkServer.sign_path / verify_token).          *)
(***************************************************************************)
\* cfg.link_secret or 'dev-secret', as bytes; one byte stands for the key
Secret == <<115>>

HexDigit(n) == IF n < 10 THEN ZERO + n ELSE 87 + n

HexOf(b) ==
    Concat([i \in 1..Len(b) |->
               <<HexDigit(b[i] \div 16), HexDigit(b[i] % 16)>>])

\* hmac.new(secret, payload, hashlib.sha256).hexdigest(): a lowercase hex
\* string determined by key and payload.  SHA-256 is idealised as
\* collision-free: the digest is the hex rendering of key and payload.
HmacHex(secret, payload) == HexOf(secret \o payload)

IsAscii(s) == \A i \in 1..Len(s) : s[i] < 128

\* variant: the digests are compared without regard to letter case
CompareDigestNoCase(a, b) ==
    IF IsAscii(a) /\ IsAscii(b)
    THEN [raised |-> FALSE, eq |-> Lower(a) = Lower(b)]
    ELSE [raised |-> TRUE, eq |-> FALSE]

\* hmac.compare_digest on two str: TypeError unless both are ASCII
CompareDigest(a, b) ==
    IF IsAscii(a) /\ IsAscii(b)
    THEN [raised |-> FALSE, eq |-> a = b]
    ELSE [raised |-> TRUE, eq |-> FALSE]

\* results of verify_token: None, a path, or an exception leaving the method
Rejected == [kind |-> "none", path |-> <<>>]
Raised == [kind |-> "raise", path |-> <<>>]
Accepted(p) == [kind |-> "path", path |-> p]

\* variant: the expiry is never enforced
ExpiredNever(t, exp_ts) == FALSE

\* time.time() > exp_ts
Expired(t, exp_ts) == t > exp_ts

\* variant: the signature covers the encoded path only, not the expiry
sign_path_unsigned_expiry(path, exp_ts) ==
    LET token == B64Encode(Utf8Encode(path).val)
        sig == HmacHex(Secret, Utf8Encode(token).val)
    IN  token \o <<DOT>> \o IntToStr(exp_ts) \o <<DOT>> \o sig

\* sign_path(path, exp_ts); paths are str without lone surrogates
sign_path(path, exp_ts) ==
    LET token == B64Encode(Utf8Encode(path).val)
        payload == Utf8Encode(token \o <<DOT>> \o IntToStr(exp_ts)).val
        sig == HmacHex(Secret, payload)
    IN  token \o <<DOT>> \o IntToStr(exp_ts) \o <<DOT>> \o sig

\* verify_token(token) evaluated when time.time() = t
verify_token(token, t) ==
    LET parts == Split(token, DOT) IN
    IF Len(parts) # 3 THEN Rejected
    ELSE LET token_b64 == parts[1]
             exp == ParseInt(parts[2])
             sig == parts[3]
         IN
         IF ~exp.ok THEN Rejected
         ELSE IF Expired(t, exp.val) THEN Rejected
         ELSE LET payload == Utf8Encode(token_b64 \o <<DOT>> \o IntToStr(exp.val))
                  expected == HmacHex(Secret, payload.val)
                  cmp == CompareDigest(expected, sig)
              IN
              IF ~payload.ok THEN Raised
              ELSE IF cmp.raised THEN Raised
              ELSE IF ~cmp.eq THEN Rejected
              ELSE LET raw == B64Decode(Utf8Encode(token_b64).val)
                       path == Utf8Decode(raw.val)
                   IN  IF raw.ok /\ path.ok THEN Accepted(path.val) ELSE Rejected

(***************************************************************************)
(* Bounds of the token model.                                              *)
(***************************************************************************)
\* clock range: time.time() runs from StartTime to MaxTime
StartTime == 8
MaxTime == 10
\* longest path stem drawn as an input
MaxStemLen == 1
\* /stream requests made with one link
MaxRequests == 2

\* characters of path stems: 'a', '/', e-acute (two bytes in UTF-8)
StemChars == {97, 47, 233}

RECURSIVE SeqsUpTo(_, _)
SeqsUpTo(S, n) ==
    IF n = 0 THEN {<<>>}
    ELSE LET shorter == SeqsUpTo(S, n - 1)
         IN  shorter \cup {Append(q, c) : q \in shorter, c \in S}

\* ".mp4", ".mkv", ".txt" and no extension
ExtMp4 == <<46, 109, 112, 52>>
ExtM4v == <<46, 109, 52, 118>>
ExtMkv == <<46, 109, 107, 118>>
ExtWebm == <<46, 119, 101, 98, 109>>
ExtMov == <<46, 109, 111, 118>>
ExtAvi == <<46, 97, 118, 105>>
ExtTxt == <<46, 116, 120, 116>>

Paths == {stem \o ext : stem \in SeqsUpTo(StemChars, MaxStemLen),
                        ext \in {<<>>, ExtMp4, ExtMkv, ExtTxt}}

\* characters a client may substitute into the signature segment:
\* '0', 'E', '.', e-acute
TamperChars == {48, 69, 46, 233}

\* cfg.link_ttl_seconds (default 900), scaled to the clock range
LinkTtl == 2

\* no token of the model is longer than this
MaxTokenLen == 64

\* web.py _is_video_file
_is_video_file(filename) ==
    \E ext \in {ExtMp4, ExtMkv, ExtWebm, ExtMov, ExtAvi} :
        EndsWith(Lower(filename), ext)

\* path.rsplit('/', 1)[-1]
Basename(path) == LET parts == Split(path, 47) IN parts[Len(parts)]

\* variant: a token that was served once is refused from then on
handle_video_stream_single_use(token, t) ==
    IF token = <<>> THEN "400"
    ELSE LET v == verify_token(token, t) IN
         IF v.kind = "raise" THEN "500"
         ELSE IF v.kind = "none" \/ v.path = <<>> \/ served > 0 THEN "403"
         ELSE IF ~_is_video_file(Basename(v.path)) THEN "400"
         ELSE "stream"

\* handle_video_stream up to the strategy dispatch: "400", "403", "500"
\* (exception out of verify_token) or "stream"
handle_video_stream(token, t) ==
    IF token = <<>> THEN "400"
    ELSE LET v == verify_token(token, t) IN
         IF v.kind = "raise" THEN "500"
         ELSE IF v.kind = "none" \/ v.path = <<>> THEN "403"
         ELSE IF ~_is_video_file(Basename(v.path)) THEN "400"
         ELSE "stream"

TokenIdle ==
    /\ link = <<>>
    /\ presented = <<>>
    /\ verdict = <<>>
    /\ verifiedAt = 0
    /\ requests = 0
    /\ served = 0
    /\ outcome = "none"

\* sign_path called with any path and any expiry; the model follows one link
SignPath(p, e) ==
    /\ link = <<>>
    /\ link' = <<[path |-> p, exp |-> e, token |-> sign_path(p, e), video |-> FALSE]>>
    /\ presented' = <<>>
    /\ verdict' = <<>>
    /\ verifiedAt' = 0
    /\ requests' = 0
    /\ served' = 0
    /\ outcome' = "none"
    /\ UNCHANGED now
    /\ UNCHANGED <<cacheVars, directVars, extVars>>

\* build_video_links: a player/stream link for a resolved video file,
\* announced to the user as "Stream now (single-use)"
BuildVideoLinks(p) ==
    /\ link = <<>>
    /\ _is_video_file(Basename(p))
    /\ link' = <<[path |-> p, exp |-> now + LinkTtl,
                  token |-> sign_path(p, now + LinkTtl), video |-> TRUE]>>
    /\ presented' = <<>>
    /\ verdict' = <<>>
    /\ verifiedAt' = 0
    /\ requests' = 0
    /\ served' = 0
    /\ outcome' = "none"
    /\ UNCHANGED now
    /\ UNCHANGED <<cacheVars, directVars, extVars>>

\* verify_token on the token exactly as minted
VerifyMinted ==
    /\ link # <<>>
    /\ verdict = <<>>
    /\ presented' = link[1].token
    /\ verdict' = <<verify_token(link[1].token, now)>>
    /\ verifiedAt' = now
    /\ UNCHANGED <<now, link, requests, served, outcome>>
    /\ UNCHANGED <<cacheVars, directVars, extVars>>

SigStart(token) == Len(token) - Len(Split(token, DOT)[Len(Split(token, DOT))]) + 1

\* verify_token on the minted token with character i of its signature
\* segment replaced by c
VerifyTampered(i, c) ==
    /\ link # <<>>
    /\ verdict = <<>>
    /\ i \in SigStart(link[1].token)..Len(link[1].token)
    /\ link[1].token[i] # c
    /\ presented' = [link[1].token EXCEPT ![i] = c]
    /\ verdict' = <<verify_token(presented', now)>>
    /\ verifiedAt' = now
    /\ UNCHANGED <<now, link, requests, served, outcome>>
    /\ UNCHANGED <<cacheVars, directVars, extVars>>

\* what a client may put before the digits of the expiry segment: '+', '0'
\* or a space, all of which int() accepts
ExpiryPrefixes == {<<PLUS>>, <<ZERO>>, <<SPACE>>}

\* verify_token on the minted token with its expiry segment spelled another
\* way, the other two segments as minted
VerifyRespelled(pre) ==
    /\ link # <<>>
    /\ verdict = <<>>
    /\ LET parts == Split(link[1].token, DOT)
       IN  presented' = parts[1] \o <<DOT>> \o pre \o parts[2]
                            \o <<DOT>> \o parts[3]
    /\ verdict' = <<verify_token(presented', now)>>
    /\ verifiedAt' = now
    /\ UNCHANGED <<now, link, requests, served, outcome>>
    /\ UNCHANGED <<cacheVars, directVars, extVars>>

\* GET /stream?token=<the link's token>
HandleVideoStream ==
    /\ link # <<>>
    /\ requests < MaxRequests
    /\ requests' = requests + 1
    /\ outcome' = handle_video_stream(link[1].token, now)
    /\ served' = IF outcome' = "stream" THEN served + 1 ELSE served
    /\ UNCHANGED <<now, link, presented, verdict, verifiedAt>>
    /\ UNCHANGED <<cacheVars, directVars, extVars>>

\* GET /stream without a token parameter
HandleVideoStreamNoToken ==
    /\ outcome # "400"
    /\ outcome' = handle_video_stream(<<>>, now)
    /\ UNCHANGED <<now, link, presented, verdict, verifiedAt, requests, served>>
    /\ UNCHANGED <<cacheVars, directVars, extVars>>

(***************************************************************************)
(* TTL catalog cache (cache.py) and the get-or-scan callers (__main__.py). *)
(***************************************************************************)
\* cfg.cache_ttl_seconds (default 900), scaled to the clock range
MaxAge == 1

Cats == {"books", "movies", "tv", "music"}

\* the order in which browseall, update and background_update call the
\* four ensure_* functions
CallOrder == <<"books", "movies", "tv", "music">>

\* catalogs a successful scan returns; "empty" is the [] / {} that the
\* movie, TV and music wrappers return after a failure
Snapshots == {"s1", "s2"}

\* event-loop tasks: two command invocations and the periodic refresh
Callers == {"c1", "c2", "bg"}

\* variant: the age of the snapshot is not checked
LibraryCache_get_any_age(c, t) == cache[c].data

\* LibraryCache.get() evaluated when time.time() = t
LibraryCache_get(c, t) ==
    IF cache[c].data = "None" THEN "None"
    ELSE IF (t - cache[c].ts) > MaxAge THEN "None"
    ELSE cache[c].data

\* LibraryCache.set(data) evaluated when time.time() = t
LibraryCache_set(c, d, t) == [cache EXCEPT ![c] = [data |-> d, ts |-> t]]

\* variant: every call passes force=True
ForcedAlways(kind) == TRUE

\* force argument each kind of task passes to ensure_*
Forced(kind) == kind \in {"update", "background", "rescan_book", "rescan_music"}

\* the ensure_* calls a task makes, in order
Script(kind) ==
    IF kind = "rescan_book" THEN <<"books">>
    ELSE IF kind = "rescan_music" THEN <<"music">>
    ELSE CallOrder

\* what ensure_<c> returns before reaching its lock, "miss" when it goes on
\* to the lock: the root-path guard (not for books) and the optimistic read
QuickAnswer(kind, c) ==
    IF c # "books" /\ ~rootConfigured[c] THEN "empty"
    ELSE IF LibraryCache_get(c, now) # "None" /\ ~Forced(kind)
         THEN LibraryCache_get(c, now)
         ELSE "miss"

\* the calls of cats that a task of this kind still has to suspend in: the
\* leading calls that return without awaiting are dropped
RECURSIVE Pending(_, _)
Pending(kind, cats) ==
    IF cats = <<>> THEN <<>>
    ELSE IF QuickAnswer(kind, Head(cats)) = "miss" THEN cats
    ELSE Pending(kind, Tail(cats))

\* variant: no second read under the lock
MustScanAlways(kind, c) == TRUE

\* the double-checked read under the lock finds nothing to return
MustScan(kind, c) == LibraryCache_get(c, now) = "None" \/ Forced(kind)

\* variant: the lock excludes nobody
LockFreeAlways(c) == TRUE

\* asyncio.Lock.acquire() returns at once
LockFree(c) == lockHolder[c] = "free" /\ lockWaiters[c] = <<>>

\* Task p, running on the event loop, goes through the calls of cats until
\* one suspends.  Calls answered at once are recorded in ret (rets holds
\* values already returned in this step); the first other call takes its
\* lock and starts the scan, or queues for the lock.  rel is the category
\* whose lock p releases in the same step, "" when there is none.
Advance(p, kind, cats, rets, rel) ==
    LET rest == Pending(kind, cats)
        quick == {cats[i] : i \in 1..(Len(cats) - Len(rest))}
        c == IF rest = <<>> THEN "" ELSE Head(rest)
        woken == IF rel # "" /\ lockWaiters[rel] # <<>> THEN Head(lockWaiters[rel]) ELSE ""
        takes == rest # <<>> /\ LockFree(c)
    IN  /\ ret' = [ret EXCEPT ![p] =
                     [k \in Cats |->
                        IF kind # "browse" THEN ret[p][k]
                        ELSE IF k \in quick
                             THEN [via |-> IF k # "books" /\ ~rootConfigured[k]
                                           THEN "guard" ELSE "read",
                                   val |-> QuickAnswer(kind, k)]
                        ELSE IF k \in DOMAIN rets THEN rets[k]
                        ELSE ret[p][k]]]
        /\ pc' = [q \in Callers |->
                    IF q = p THEN (IF rest = <<>> THEN "idle"
                                   ELSE IF takes THEN "scan" ELSE "wait")
                    ELSE IF q = woken THEN "recheck"
                    ELSE pc[q]]
        /\ cat' = [cat EXCEPT ![p] = IF rest = <<>> THEN cat[p] ELSE c]
        /\ todo' = [todo EXCEPT ![p] = IF rest = <<>> THEN <<>> ELSE Tail(rest)]
        /\ scans' = [k \in Cats |-> IF takes /\ k = c THEN scans[k] + 1 ELSE scans[k]]
        /\ lockHolder' = [k \in Cats |->
                            IF takes /\ k = c THEN p
                            ELSE IF k = rel THEN (IF woken = "" THEN "free" ELSE woken)
                            ELSE lockHolder[k]]
        /\ lockWaiters' = [k \in Cats |->
                            IF rest # <<>> /\ ~takes /\ k = c THEN Append(lockWaiters[k], p)
                            ELSE IF k = rel /\ woken # "" THEN Tail(lockWaiters[k])
                            ELSE lockWaiters[k]]

\* ret entries: the return statement taken ("guard", "read", "recheck",
\* "scan") and the value; Unset before the call has returned
Unset == [via |-> "none", val |-> "unset"]

NoReturn == [k \in {} |-> Unset]

NoSet == [val |-> "None", at |-> 0 - 1]

CacheIdle ==
    /\ cache = [c \in Cats |-> [data |-> "None", ts |-> 0]]
    /\ lockHolder = [c \in Cats |-> "free"]
    /\ lockWaiters = [c \in Cats |-> <<>>]
    /\ pc = [p \in Callers |-> "idle"]
    /\ task = [p \in Callers |-> "none"]
    /\ cat = [p \in Callers |-> "books"]
    /\ todo = [p \in Callers |-> <<>>]
    /\ ret = [p \in Callers |-> [c \in Cats |-> Unset]]
    /\ scans = [c \in Cats |-> 0]
    /\ scanFailed = [c \in Cats |-> FALSE]
    /\ lastSet = [c \in Cats |-> NoSet]

\* a command is invoked / the refresh loop fires; each task runs once
StartTask(p, kind) ==
    /\ task[p] = "none"
    /\ IF p = "bg" THEN kind = "background"
       ELSE kind \in {"browse", "update", "rescan_book", "rescan_music"}
    /\ task' = [task EXCEPT ![p] = kind]
    /\ Advance(p, kind, Script(kind), NoReturn, "")
    /\ UNCHANGED <<cache, rootConfigured, scanFailed, lastSet>>
    /\ UNCHANGED <<now, tokenVars, directVars, extVars>>

\* a task woken with the lock resumes: the double-checked read either
\* returns the cached catalog (and the task goes on) or starts the scan
Resume(p) ==
    /\ pc[p] = "recheck"
    /\ lockHolder[cat[p]] = p
    /\ IF MustScan(task[p], cat[p])
       THEN /\ pc' = [pc EXCEPT ![p] = "scan"]
            /\ scans' = [scans EXCEPT ![cat[p]] = @ + 1]
            /\ UNCHANGED <<lockHolder, lockWaiters, cat, todo, ret>>
       ELSE Advance(p, task[p], todo[p],
                    [k \in {cat[p]} |-> [via |-> "recheck",
                                          val |-> LibraryCache_get(cat[p], now)]],
                    cat[p])
    /\ UNCHANGED <<cache, rootConfigured, task, scanFailed, lastSet>>
    /\ UNCHANGED <<now, tokenVars, directVars, extVars>>

\* the scan returns catalog snap: cache.set(data), leave the lock, return data
ScanOk(p, snap) ==
    /\ pc[p] = "scan"
    /\ cache' = LibraryCache_set(cat[p], snap, now)
    /\ lastSet' = [lastSet EXCEPT ![cat[p]] = [val |-> snap, at |-> now]]
    /\ scanFailed' = [scanFailed EXCEPT ![cat[p]] = FALSE]
    /\ Advance(p, task[p], todo[p],
               [k \in {cat[p]} |-> [via |-> "scan", val |-> snap]], cat[p])
    /\ UNCHANGED <<rootConfigured, task>>
    /\ UNCHANGED <<now, tokenVars, directVars, extVars>>

\* the scan raises (the session cannot be opened, the root listing fails).
\* scan_library: the exception leaves ensure_cache_up_to_date, the lock is
\* released and nothing is stored; update_cmd and background_update log it
\* and give up their remaining calls, browseall ends with the error.
\* _scan_movies / _scan_tv / _scan_music: the exception is logged and the
\* empty catalog is returned, stored and handed to the caller.
ScanFail(p) ==
    /\ pc[p] = "scan"
    /\ scanFailed' = [scanFailed EXCEPT ![cat[p]] = TRUE]
    /\ IF cat[p] = "books"
       THEN /\ Advance(p, task[p], <<>>,
                       [k \in {cat[p]} |-> [via |-> "scan", val |-> "raised"]], cat[p])
            /\ UNCHANGED <<cache, lastSet>>
       ELSE /\ cache' = LibraryCache_set(cat[p], "empty", now)
            /\ lastSet' = [lastSet EXCEPT ![cat[p]] = [val |-> "empty", at |-> now]]
            /\ Advance(p, task[p], todo[p],
                       [k \in {cat[p]} |-> [via |-> "scan", val |-> "empty"]], cat[p])
    /\ UNCHANGED <<rootConfigured, task>>
    /\ UNCHANGED <<now, tokenVars, directVars, extVars>>

(***************************************************************************)
(* Direct video delivery (web.py, LinkServer._stream_direct).              *)
(***************************************************************************)
\* largest source file drawn as an input
MaxFileSize == 6
\* longest Range value (after "bytes=") drawn as an input
MaxRangeLen == 3
\* producer read size: 512 * 1024 in the source, scaled
ChunkSize == 2
\* asyncio.Queue(maxsize=5) in the source, scaled
QueueMaxSize == 1

FileSizes == {0, 1, MaxFileSize}

\* characters of Range values: '1', '5', '9', '-', 'x'
RangeChars == {49, 53, 57, 45, 120}

\* Range header values: absent (<<>>) or "bytes=" followed by a short string
RangeHeaders == {<<>>} \cup {BytesPrefix \o r : r \in SeqsUpTo(RangeChars, MaxRangeLen)}


\* variant: the end of the range is not clamped
ClampEndNever(en, n) == en

\* if end >= file_size: end = file_size - 1
ClampEnd(en, n) == IF en >= n THEN n - 1 ELSE en

\* outcome of the Range handling of _stream_direct for header h and file
\* size n: the fallback after a parsing exception keeps whatever start had
\* been assigned before the exception
RangeFallback(n, st) ==
    [status |-> 200, start |-> st, end |-> n - 1, length |-> n,
     range |-> <<>>, reject |-> FALSE]

ParseRange(h, n) ==
    IF h = <<>> \/ ~StartsWith(h, BytesPrefix) THEN RangeFallback(n, 0)
    ELSE LET spec == Split(h, EQUALS)[2]
             parts == Split(spec, DASH)
         IN
         IF Len(parts) # 2 THEN RangeFallback(n, 0)
         ELSE LET s == parts[1]
                  e == parts[2]
                  ps == ParseInt(s)
                  pe == ParseInt(e)
                  st == IF s = <<>> THEN 0 ELSE ps.val
                  en0 == IF e = <<>> THEN n - 1 ELSE pe.val
                  en == ClampEnd(en0, n)
              IN
              IF s # <<>> /\ ~ps.ok THEN RangeFallback(n, 0)
              ELSE IF e # <<>> /\ ~pe.ok THEN RangeFallback(n, st)
              ELSE IF st > en
                   THEN [status |-> 416, start |-> st, end |-> en, length |-> 0 - 1,
                         range |-> <<>>, reject |-> TRUE]
                   ELSE [status |-> 206, start |-> st, end |-> en,
                         length |-> en - st + 1, range |-> <<st, en, n>>,
                         reject |-> FALSE]

\* variant: every read starts at the beginning of the file
ReadChunkFromStart(p, k) == [i \in 1..k |-> i - 1]

\* f.read(k) at offset p of the source: the offsets stand for the bytes
ReadChunk(p, k) == [i \in 1..k |-> p + i - 1]

Chunk(bytes) == [kind |-> "chunk", bytes |-> bytes]
ErrorItem == [kind |-> "error", bytes |-> <<>>]
EofItem == [kind |-> "eof", bytes |-> <<>>]

DirectIdle ==
    /\ file_size = 0
    /\ range_header = <<>>
    /\ dpc = "done"
    /\ status = 0
    /\ start = 0
    /\ end = 0
    /\ contentLength = 0 - 1
    /\ contentRange = <<>>
    /\ queue = <<>>
    /\ putters = <<>>
    /\ held = <<>>
    /\ stop = FALSE
    /\ ppc = "idle"
    /\ pos = 0
    /\ body = <<>>
    /\ clientGone = FALSE
    /\ srcFailed = FALSE
    /\ putTimedOut = FALSE
    /\ returned = "none"

\* a direct /stream request for an existing file arrives
DirectRequest ==
    /\ file_size \in FileSizes
    /\ range_header \in RangeHeaders
    /\ dpc = "start"
    /\ status = 0
    /\ start = 0
    /\ end = file_size - 1
    /\ contentLength = 0 - 1
    /\ contentRange = <<>>
    /\ queue = <<>>
    /\ putters = <<>>
    /\ held = <<>>
    /\ stop = FALSE
    /\ ppc = "idle"
    /\ pos = 0
    /\ body = <<>>
    /\ clientGone = FALSE
    /\ srcFailed = FALSE
    /\ putTimedOut = FALSE
    /\ returned = "none"

\* a direct /stream request arrives for a path that does not exist
DirectRequestMissing ==
    /\ file_size = 0
    /\ range_header \in {<<>>, BytesPrefix \o <<49, DASH, 53>>}
    /\ dpc = "stat"
    /\ status = 0
    /\ start = 0
    /\ end = 0
    /\ contentLength = 0 - 1
    /\ contentRange = <<>>
    /\ queue = <<>>
    /\ putters = <<>>
    /\ held = <<>>
    /\ stop = FALSE
    /\ ppc = "idle"
    /\ pos = 0
    /\ body = <<>>
    /\ clientGone = FALSE
    /\ srcFailed = FALSE
    /\ putTimedOut = FALSE
    /\ returned = "none"

\* get_file_info raises (stat fails): the handler returns 404
GetFileInfoFails ==
    /\ dpc = "stat"
    /\ status' = 404
    /\ returned' = "404"
    /\ dpc' = "done"
    /\ srcFailed' = TRUE
    /\ UNCHANGED <<now, tokenVars, cacheVars, extVars, file_size, range_header, start,
                   end, contentLength, contentRange, queue, putters, held, stop,
                   ppc, pos, body, clientGone, putTimedOut>>

\* Range handling, resp.prepare and the start of the producer thread
PrepareResponse ==
    /\ dpc = "start"
    /\ LET r == ParseRange(range_header, file_size) IN
       /\ status' = r.status
       /\ start' = r.start
       /\ end' = r.end
       /\ contentLength' = r.length
       /\ contentRange' = r.range
       /\ IF r.reject
          THEN /\ dpc' = "done"
               /\ returned' = "416"
               /\ UNCHANGED <<ppc, pos>>
          ELSE /\ dpc' = "get"
               /\ ppc' = "loop"
               /\ pos' = r.start
               /\ UNCHANGED returned
    /\ UNCHANGED <<now, tokenVars, cacheVars, extVars, file_size, range_header, queue,
                   putters, held, stop, body, clientGone, srcFailed, putTimedOut>>

\* run_coroutine_threadsafe(queue.put(item)): the item enters the queue when
\* there is room, else the put coroutine waits among the putters
PutQueue(item) == IF Len(queue) < QueueMaxSize THEN Append(queue, item) ELSE queue

PutPutters(item) == IF Len(queue) < QueueMaxSize THEN putters ELSE Append(putters, item)

\* producer loop: read the next chunk and put it
ProducerRead ==
    /\ ppc = "loop"
    /\ ~stop
    /\ pos <= end
    /\ LET to_read == IF ChunkSize < end - pos + 1 THEN ChunkSize ELSE end - pos + 1
           chunk == Chunk(ReadChunk(pos, to_read))
       IN  /\ pos' = pos + to_read
           /\ queue' = PutQueue(chunk)
           /\ putters' = PutPutters(chunk)
           /\ ppc' = IF Len(queue) < QueueMaxSize THEN "loop" ELSE "blocked"
    /\ UNCHANGED <<now, tokenVars, cacheVars, extVars, file_size, range_header, dpc, status,
                   start, end, contentLength, contentRange, held, stop, body,
                   clientGone, srcFailed, putTimedOut, returned>>

\* producer loop ends (stop flag seen or range exhausted): finally puts None
ProducerFinish ==
    /\ ppc = "loop"
    /\ stop \/ pos > end
    /\ queue' = PutQueue(EofItem)
    /\ putters' = PutPutters(EofItem)
    /\ ppc' = IF Len(queue) < QueueMaxSize THEN "done" ELSE "blocked_eof"
    /\ UNCHANGED <<now, tokenVars, cacheVars, extVars, file_size, range_header, dpc, status,
                   start, end, contentLength, contentRange, held, stop, pos, body,
                   clientGone, srcFailed, putTimedOut, returned>>

\* connecting, opening, seeking or reading raises: the except branch puts
\* the error string, then finally puts None
ProducerError ==
    /\ ppc = "loop"
    /\ srcFailed' = TRUE
    /\ queue' = PutQueue(ErrorItem)
    /\ putters' = PutPutters(ErrorItem)
    /\ ppc' = IF Len(queue) < QueueMaxSize THEN "eof" ELSE "blocked_err"
    /\ UNCHANGED <<now, tokenVars, cacheVars, extVars, file_size, range_header, dpc, status,
                   start, end, contentLength, contentRange, held, stop, pos, body,
                   clientGone, putTimedOut, returned>>

\* after a put of the error string completed or timed out: finally puts None
ProducerEof ==
    /\ ppc = "eof"
    /\ queue' = PutQueue(EofItem)
    /\ putters' = PutPutters(EofItem)
    /\ ppc' = IF Len(queue) < QueueMaxSize THEN "done" ELSE "blocked_eof"
    /\ UNCHANGED <<now, tokenVars, cacheVars, extVars, file_size, range_header, dpc, status,
                   start, end, contentLength, contentRange, held, stop, pos, body,
                   clientGone, srcFailed, putTimedOut, returned>>

\* fut.result(timeout=...) raises: the put stays pending on the loop, the
\* producer leaves its loop (chunk), goes on to finally (error string) or
\* closes its session (None)
PutTimeout ==
    /\ ppc \in {"blocked", "blocked_err", "blocked_eof"}
    /\ ppc' = IF ppc = "blocked_eof" THEN "done" ELSE "eof"
    /\ putTimedOut' = TRUE
    /\ UNCHANGED <<now, tokenVars, cacheVars, extVars, file_size, range_header, dpc, status,
                   start, end, contentLength, contentRange, queue, putters, held,
                   stop, pos, body, clientGone, srcFailed, returned>>

\* a waiting put coroutine finds room and completes; the producer goes on
\* when it was the put it is waiting for
PutterWakes ==
    /\ putters # <<>>
    /\ Len(queue) < QueueMaxSize
    /\ queue' = Append(queue, Head(putters))
    /\ putters' = Tail(putters)
    /\ ppc' = IF Len(putters) = 1
              THEN (IF ppc = "blocked" THEN "loop"
                    ELSE IF ppc = "blocked_err" THEN "eof"
                    ELSE IF ppc = "blocked_eof" THEN "done"
                    ELSE ppc)
              ELSE ppc
    /\ UNCHANGED <<now, tokenVars, cacheVars, extVars, file_size, range_header, dpc, status,
                   start, end, contentLength, contentRange, held, stop, pos, body,
                   clientGone, srcFailed, putTimedOut, returned>>

\* chunk = await queue.get(): None ends the loop, an error string makes the
\* handler return a 500 response, a chunk is written next
ConsumerGet ==
    /\ dpc = "get"
    /\ queue # <<>>
    /\ queue' = Tail(queue)
    /\ LET item == Head(queue) IN
       IF item.kind = "eof"
       THEN /\ dpc' = "finally"
            /\ returned' = "resp"
            /\ UNCHANGED held
       ELSE IF item.kind = "error"
       THEN /\ dpc' = "finally"
            /\ returned' = "500"
            /\ UNCHANGED held
       ELSE /\ dpc' = "write"
            /\ held' = <<item.bytes>>
            /\ UNCHANGED returned
    /\ stop' = IF Head(queue).kind = "chunk" THEN stop ELSE TRUE
    /\ UNCHANGED <<now, tokenVars, cacheVars, extVars, file_size, range_header, status,
                   start, end, contentLength, contentRange, putters, ppc, pos, body,
                   clientGone, srcFailed, putTimedOut>>

\* await resp.write(chunk) completes
ConsumerWrite ==
    /\ dpc = "write"
    /\ ~clientGone
    /\ body' = body \o held[1]
    /\ held' = <<>>
    /\ dpc' = "get"
    /\ UNCHANGED <<now, tokenVars, cacheVars, extVars, file_size, range_header, status,
                   start, end, contentLength, contentRange, queue, putters, stop,
                   ppc, pos, clientGone, srcFailed, putTimedOut, returned>>

\* await resp.write(chunk) raises because the client is gone
ConsumerWriteFails ==
    /\ dpc = "write"
    /\ clientGone
    /\ held' = <<>>
    /\ stop' = TRUE
    /\ dpc' = "finally"
    /\ returned' = "resp"
    /\ UNCHANGED <<now, tokenVars, cacheVars, extVars, file_size, range_header, status,
                   start, end, contentLength, contentRange, queue, putters, ppc,
                   pos, body, clientGone, srcFailed, putTimedOut>>

\* finally: await producer_future, write_eof, return
ConsumerFinally ==
    /\ dpc = "finally"
    /\ ppc = "done"
    /\ dpc' = "done"
    /\ UNCHANGED <<now, tokenVars, cacheVars, extVars, file_size, range_header, status,
                   start, end, contentLength, contentRange, queue, putters, held,
                   stop, ppc, pos, body, clientGone, srcFailed, putTimedOut,
                   returned>>

\* the client closes the connection while the response is being delivered
ClientDisconnect ==
    /\ dpc \in {"get", "write"}
    /\ ~clientGone
    /\ clientGone' = TRUE
    /\ UNCHANGED <<now, tokenVars, cacheVars, extVars, file_size, range_header, dpc, status,
                   start, end, contentLength, contentRange, queue, putters, held,
                   stop, ppc, pos, body, srcFailed, putTimedOut, returned>>

(***************************************************************************)
(* Token endpoints: pre-flight checks and the /stream strategy decision.   *)
(***************************************************************************)
GateIdle ==
    /\ endpoint = "none"
    /\ quality = <<>>
    /\ ffmpeg = FALSE
    /\ probe = "none"
    /\ decision = "none"
    /\ target_height = -1
    /\ remote_calls = {}
    /\ body_kind = "none"
    /\ body_path = <<>>

(***************************************************************************)
(* Plain download (web.py, LinkServer.handle_download).                    *)
(***************************************************************************)
\* reader's read size: 64 * 1024 in the source, scaled
DlChunkSize == 2
\* asyncio.Queue(maxsize=10) in the source, scaled
DlQueueMaxSize == 1

DownloadIdle ==
    /\ dl_size = 0
    /\ dl_pc = "idle"
    /\ dl_status = 0
    /\ dl_queue = <<>>
    /\ dl_putters = <<>>
    /\ dl_held = <<>>
    /\ dl_stop = FALSE
    /\ dl_ppc = "idle"
    /\ dl_pos = 0
    /\ dl_body = <<>>
    /\ dl_gone = FALSE
    /\ dl_session = "none"
    /\ dl_failed = FALSE

\* a /d request with a valid token arrives; the file may be missing
DownloadRequest ==
    /\ missing \in BOOLEAN
    /\ dl_size \in 0..MaxFileSize
    /\ dl_pc = "prepare"
    /\ dl_status = 0
    /\ dl_queue = <<>>
    /\ dl_putters = <<>>
    /\ dl_held = <<>>
    /\ dl_stop = FALSE
    /\ dl_ppc = "idle"
    /\ dl_pos = 0
    /\ dl_body = <<>>
    /\ dl_gone = FALSE
    /\ dl_session = "none"
    /\ dl_failed = FALSE

DlPutQueue(item) ==
    IF Len(dl_queue) < DlQueueMaxSize THEN Append(dl_queue, item) ELSE dl_queue

DlPutPutters(item) ==
    IF Len(dl_queue) < DlQueueMaxSize THEN dl_putters ELSE Append(dl_putters, item)

\* the 200 response is prepared and the reader thread started, before the
\* remote file is touched
DlPrepare ==
    /\ dl_pc = "prepare"
    /\ dl_status' = 200
    /\ dl_pc' = "get"
    /\ dl_ppc' = "start"
    /\ UNCHANGED <<missing, dl_size, dl_queue, dl_putters, dl_held, dl_stop, dl_pos,
                   dl_body, dl_gone, dl_session, dl_failed>>
    /\ UNCHANGED <<now, tokenVars, cacheVars, directVars, gateVars, encVars,
                   scanVars>>

\* finally: if sftp: sftp.close()
DlClose == IF dl_session = "open" THEN "closed" ELSE dl_session

\* reader: _connect() raises; finally puts None, there is no session to close
DlConnectFails ==
    /\ dl_ppc = "start"
    /\ dl_failed' = TRUE
    /\ dl_ppc' = "eof"
    /\ UNCHANGED <<missing, dl_size, dl_pc, dl_status, dl_queue, dl_putters, dl_held,
                   dl_stop, dl_pos, dl_body, dl_gone, dl_session>>
    /\ UNCHANGED <<now, tokenVars, cacheVars, directVars, gateVars, encVars,
                   scanVars>>

\* reader: _connect() and sftp.open(path) succeed
DlOpen ==
    /\ dl_ppc = "start"
    /\ ~missing
    /\ dl_session' = "open"
    /\ dl_ppc' = "loop"
    /\ UNCHANGED <<missing, dl_size, dl_pc, dl_status, dl_queue, dl_putters, dl_held,
                   dl_stop, dl_pos, dl_body, dl_gone, dl_failed>>
    /\ UNCHANGED <<now, tokenVars, cacheVars, directVars, gateVars, encVars,
                   scanVars>>

\* reader: sftp.open(path) raises for a missing file; the exception leaves
\* the thread through finally, which puts None
DlOpenFails ==
    /\ dl_ppc = "start"
    /\ missing
    /\ dl_session' = "open"
    /\ dl_failed' = TRUE
    /\ dl_ppc' = "eof"
    /\ UNCHANGED <<missing, dl_size, dl_pc, dl_status, dl_queue, dl_putters, dl_held,
                   dl_stop, dl_pos, dl_body, dl_gone>>
    /\ UNCHANGED <<now, tokenVars, cacheVars, directVars, gateVars, encVars,
                   scanVars>>

\* reader loop: read the next chunk and put it, waiting without a timeout
DlRead ==
    /\ dl_ppc = "loop"
    /\ ~dl_stop
    /\ dl_pos < dl_size
    /\ LET k == IF DlChunkSize < dl_size - dl_pos THEN DlChunkSize ELSE dl_size - dl_pos
           chunk == Chunk(ReadChunk(dl_pos, k))
       IN  /\ dl_pos' = dl_pos + k
           /\ dl_queue' = DlPutQueue(chunk)
           /\ dl_putters' = DlPutPutters(chunk)
           /\ dl_ppc' = IF Len(dl_queue) < DlQueueMaxSize THEN "loop" ELSE "blocked"
    /\ UNCHANGED <<missing, dl_size, dl_pc, dl_status, dl_held, dl_stop, dl_body,
                   dl_gone, dl_session, dl_failed>>
    /\ UNCHANGED <<now, tokenVars, cacheVars, directVars, gateVars, encVars,
                   scanVars>>

\* reader loop ends: the stop flag is seen at the top of the loop, or the
\* read returns no bytes
DlLoopEnds ==
    /\ dl_ppc = "loop"
    /\ dl_stop \/ dl_pos >= dl_size
    /\ dl_ppc' = "eof"
    /\ UNCHANGED <<missing, dl_size, dl_pc, dl_status, dl_queue, dl_putters, dl_held,
                   dl_stop, dl_pos, dl_body, dl_gone, dl_session, dl_failed>>
    /\ UNCHANGED <<now, tokenVars, cacheVars, directVars, gateVars, encVars,
                   scanVars>>

\* reader: f.read raises (the remote session broke)
DlReadFails ==
    /\ dl_ppc = "loop"
    /\ ~dl_stop
    /\ dl_pos < dl_size
    /\ dl_failed' = TRUE
    /\ dl_ppc' = "eof"
    /\ UNCHANGED <<missing, dl_size, dl_pc, dl_status, dl_queue, dl_putters, dl_held,
                   dl_stop, dl_pos, dl_body, dl_gone, dl_session>>
    /\ UNCHANGED <<now, tokenVars, cacheVars, directVars, gateVars, encVars,
                   scanVars>>

\* finally: put None with a 2 second timeout; when the put went in, close
\* the session and end
DlPutEof ==
    /\ dl_ppc = "eof"
    /\ dl_queue' = DlPutQueue(EofItem)
    /\ dl_putters' = DlPutPutters(EofItem)
    /\ IF Len(dl_queue) < DlQueueMaxSize
       THEN dl_ppc' = "done" /\ dl_session' = DlClose
       ELSE dl_ppc' = "blocked_eof" /\ UNCHANGED dl_session
    /\ UNCHANGED <<missing, dl_size, dl_pc, dl_status, dl_held, dl_stop, dl_pos,
                   dl_body, dl_gone, dl_failed>>
    /\ UNCHANGED <<now, tokenVars, cacheVars, directVars, gateVars, encVars,
                   scanVars>>

\* fut.result(timeout=2) of the None put raises: close the session and end
DlEofTimeout ==
    /\ dl_ppc = "blocked_eof"
    /\ dl_ppc' = "done"
    /\ dl_session' = DlClose
    /\ UNCHANGED <<missing, dl_size, dl_pc, dl_status, dl_queue, dl_putters, dl_held,
                   dl_stop, dl_pos, dl_body, dl_gone, dl_failed>>
    /\ UNCHANGED <<now, tokenVars, cacheVars, directVars, gateVars, encVars,
                   scanVars>>

\* a waiting put coroutine finds room and completes; the reader goes on when
\* it was the put it is waiting for
DlPutterWakes ==
    /\ dl_putters # <<>>
    /\ Len(dl_queue) < DlQueueMaxSize
    /\ dl_queue' = Append(dl_queue, Head(dl_putters))
    /\ dl_putters' = Tail(dl_putters)
    /\ IF Len(dl_putters) = 1 /\ dl_ppc = "blocked"
       THEN dl_ppc' = "loop" /\ UNCHANGED dl_session
       ELSE IF Len(dl_putters) = 1 /\ dl_ppc = "blocked_eof"
       THEN dl_ppc' = "done" /\ dl_session' = DlClose
       ELSE UNCHANGED <<dl_ppc, dl_session>>
    /\ UNCHANGED <<missing, dl_size, dl_pc, dl_status, dl_held, dl_stop, dl_pos,
                   dl_body, dl_gone, dl_failed>>
    /\ UNCHANGED <<now, tokenVars, cacheVars, directVars, gateVars, encVars,
                   scanVars>>

\* chunk = await queue.get(): None ends the loop (write_eof, return), a
\* chunk is written next
DlGet ==
    /\ dl_pc = "get"
    /\ dl_queue # <<>>
    /\ dl_queue' = Tail(dl_queue)
    /\ IF Head(dl_queue).kind = "eof"
       THEN dl_pc' = "done" /\ UNCHANGED dl_held
       ELSE dl_pc' = "write" /\ dl_held' = <<Head(dl_queue).bytes>>
    /\ UNCHANGED <<missing, dl_size, dl_status, dl_putters, dl_stop, dl_ppc, dl_pos,
                   dl_body, dl_gone, dl_session, dl_failed>>
    /\ UNCHANGED <<now, tokenVars, cacheVars, directVars, gateVars, encVars,
                   scanVars>>

\* await resp.write(chunk) completes
DlWrite ==
    /\ dl_pc = "write"
    /\ ~dl_gone
    /\ dl_body' = dl_body \o dl_held[1]
    /\ dl_held' = <<>>
    /\ dl_pc' = "get"
    /\ UNCHANGED <<missing, dl_size, dl_status, dl_queue, dl_putters, dl_stop, dl_ppc,
                   dl_pos, dl_gone, dl_session, dl_failed>>
    /\ UNCHANGED <<now, tokenVars, cacheVars, directVars, gateVars, encVars,
                   scanVars>>

\* await resp.write(chunk) raises because the client is gone: the stop flag
\* is set and the handler returns without draining the queue
DlWriteFails ==
    /\ dl_pc = "write"
    /\ dl_gone
    /\ dl_held' = <<>>
    /\ dl_stop' = TRUE
    /\ dl_pc' = "done"
    /\ UNCHANGED <<missing, dl_size, dl_status, dl_queue, dl_putters, dl_ppc, dl_pos,
                   dl_body, dl_gone, dl_session, dl_failed>>
    /\ UNCHANGED <<now, tokenVars, cacheVars, directVars, gateVars, encVars,
                   scanVars>>

\* the client closes the connection while the download is being delivered
DlClientDisconnect ==
    /\ dl_pc \in {"get", "write"}
    /\ ~dl_gone
    /\ dl_gone' = TRUE
    /\ UNCHANGED <<missing, dl_size, dl_pc, dl_status, dl_queue, dl_putters, dl_held,
                   dl_stop, dl_ppc, dl_pos, dl_body, dl_session, dl_failed>>
    /\ UNCHANGED <<now, tokenVars, cacheVars, directVars, gateVars, encVars,
                   scanVars>>

(***************************************************************************)
(* Remux and transcode (web.py, _stream_remux_to_mp4 and                   *)
(* _stream_with_transcoding: the two run_ffmpeg bodies are the same).      *)
(***************************************************************************)
\* most chunks a source file holds
EncMaxChunks == 4
\* chunks the encoder's stdin pipe and the transport buffer hold before
\* drain() waits
EncStdinRoom == 1
\* blocks the stdout pipe and the stream reader hold before the encoder's
\* write blocks
EncStdoutRoom == 1
\* lines of diagnostics the stderr pipe and its stream reader hold before
\* the encoder's write blocks
EncStderrRoom == 2

EncoderIdle ==
    /\ enc_size = 0
    /\ enc_pc = "idle"
    /\ enc_status = 0
    /\ enc_fpc = "idle"
    /\ enc_pos = 0
    /\ enc_proc = "none"
    /\ enc_in = 0
    /\ enc_pending = 0
    /\ enc_emitted = 0
    /\ enc_out = <<>>
    /\ enc_held = <<>>
    /\ enc_body = <<>>
    /\ enc_stop = FALSE
    /\ enc_gone = FALSE
    /\ enc_stdin = "open"
    /\ enc_session = "none"
    /\ enc_crashed = FALSE
    /\ enc_err = 0

\* a remux or transcode request with a valid token arrives
EncoderRequest ==
    /\ enc_size \in 0..EncMaxChunks
    /\ enc_pc = "prepare"
    /\ enc_status = 0
    /\ enc_fpc = "idle"
    /\ enc_pos = 0
    /\ enc_proc = "none"
    /\ enc_in = 0
    /\ enc_pending = 0
    /\ enc_emitted = 0
    /\ enc_out = <<>>
    /\ enc_held = <<>>
    /\ enc_body = <<>>
    /\ enc_stop = FALSE
    /\ enc_gone = FALSE
    /\ enc_stdin = "open"
    /\ enc_session = "none"
    /\ enc_crashed = FALSE
    /\ enc_err = 0

\* finally of the feeder: if sftp: sftp.close()
EncClose == IF enc_session = "open" THEN "closed" ELSE enc_session

\* resp.prepare, create_subprocess_exec, create_task(feeder())
EncPrepare ==
    /\ enc_pc = "prepare"
    /\ enc_status' = 200
    /\ enc_proc' = "running"
    /\ enc_fpc' = "start"
    /\ enc_pc' = "read"
    /\ UNCHANGED <<enc_size, enc_pos, enc_in, enc_pending, enc_emitted,
                   enc_out, enc_held, enc_body, enc_stop, enc_gone, enc_stdin,
                   enc_session, enc_crashed>>
    /\ UNCHANGED <<now, tokenVars, cacheVars, directVars, gateVars, dlVars,
                   scanVars, enc_err>>

\* feeder: _connect() raises; finally closes the encoder's stdin
FeederConnectFails ==
    /\ enc_fpc = "start"
    /\ enc_fpc' = "closing"
    /\ UNCHANGED <<enc_size, enc_pc, enc_status, enc_pos, enc_proc, enc_in,
                   enc_pending, enc_emitted, enc_out, enc_held, enc_body,
                   enc_stop, enc_gone, enc_stdin, enc_session, enc_crashed>>
    /\ UNCHANGED <<now, tokenVars, cacheVars, directVars, gateVars, dlVars,
                   scanVars, enc_err>>

\* feeder: _connect() and sftp.open(path) succeed
FeederOpen ==
    /\ enc_fpc = "start"
    /\ ~missing
    /\ enc_session' = "open"
    /\ enc_fpc' = "loop"
    /\ UNCHANGED <<enc_size, enc_pc, enc_status, enc_pos, enc_proc, enc_in,
                   enc_pending, enc_emitted, enc_out, enc_held, enc_body,
                   enc_stop, enc_gone, enc_stdin, enc_crashed>>
    /\ UNCHANGED <<now, tokenVars, cacheVars, directVars, gateVars, dlVars,
                   scanVars, enc_err>>

\* feeder: sftp.open(path) raises for a missing file
FeederOpenFails ==
    /\ enc_fpc = "start"
    /\ missing
    /\ enc_session' = "open"
    /\ enc_fpc' = "closing"
    /\ UNCHANGED <<enc_size, enc_pc, enc_status, enc_pos, enc_proc, enc_in,
                   enc_pending, enc_emitted, enc_out, enc_held, enc_body,
                   enc_stop, enc_gone, enc_stdin, enc_crashed>>
    /\ UNCHANGED <<now, tokenVars, cacheVars, directVars, gateVars, dlVars,
                   scanVars, enc_err>>

\* feeder loop: read a chunk, proc.stdin.write(chunk), then await drain()
FeederWrite ==
    /\ enc_fpc = "loop"
    /\ ~enc_stop
    /\ enc_pos < enc_size
    /\ enc_proc \in {"running", "hung"}
    /\ enc_pos' = enc_pos + 1
    /\ enc_in' = enc_in + 1
    /\ enc_fpc' = "drain"
    /\ UNCHANGED <<enc_size, enc_pc, enc_status, enc_proc, enc_pending,
                   enc_emitted, enc_out, enc_held, enc_body, enc_stop,
                   enc_gone, enc_stdin, enc_session, enc_crashed>>
    /\ UNCHANGED <<now, tokenVars, cacheVars, directVars, gateVars, dlVars,
                   scanVars, enc_err>>

\* drain() returns once the encoder has taken the data down to the pipe's room
FeederDrained ==
    /\ enc_fpc = "drain"
    /\ enc_proc \in {"running", "hung"}
    /\ enc_in < EncStdinRoom
    /\ enc_fpc' = "loop"
    /\ UNCHANGED <<enc_size, enc_pc, enc_status, enc_pos, enc_proc, enc_in,
                   enc_pending, enc_emitted, enc_out, enc_held, enc_body,
                   enc_stop, enc_gone, enc_stdin, enc_session, enc_crashed>>
    /\ UNCHANGED <<now, tokenVars, cacheVars, directVars, gateVars, dlVars,
                   scanVars, enc_err>>

\* write or drain() raises because the encoder process has exited
FeederPipeBroken ==
    /\ \/ enc_fpc = "drain"
       \/ enc_fpc = "loop" /\ ~enc_stop /\ enc_pos < enc_size
    /\ enc_proc = "exited"
    /\ enc_fpc' = "closing"
    /\ UNCHANGED <<enc_size, enc_pc, enc_status, enc_pos, enc_proc, enc_in,
                   enc_pending, enc_emitted, enc_out, enc_held, enc_body,
                   enc_stop, enc_gone, enc_stdin, enc_session, enc_crashed>>
    /\ UNCHANGED <<now, tokenVars, cacheVars, directVars, gateVars, dlVars,
                   scanVars, enc_err>>

\* feeder: f.read raises (the remote session broke)
FeederReadFails ==
    /\ enc_fpc = "loop"
    /\ ~enc_stop
    /\ enc_pos < enc_size
    /\ enc_fpc' = "closing"
    /\ UNCHANGED <<enc_size, enc_pc, enc_status, enc_pos, enc_proc, enc_in,
                   enc_pending, enc_emitted, enc_out, enc_held, enc_body,
                   enc_stop, enc_gone, enc_stdin, enc_session, enc_crashed>>
    /\ UNCHANGED <<now, tokenVars, cacheVars, directVars, gateVars, dlVars,
                   scanVars, enc_err>>

\* feeder loop ends: the stop flag is seen at the top of the loop, or the
\* read returns no bytes
FeederLoopEnds ==
    /\ enc_fpc = "loop"
    /\ enc_stop \/ enc_pos >= enc_size
    /\ enc_fpc' = "closing"
    /\ UNCHANGED <<enc_size, enc_pc, enc_status, enc_pos, enc_proc, enc_in,
                   enc_pending, enc_emitted, enc_out, enc_held, enc_body,
                   enc_stop, enc_gone, enc_stdin, enc_session, enc_crashed>>
    /\ UNCHANGED <<now, tokenVars, cacheVars, directVars, gateVars, dlVars,
                   scanVars, enc_err>>

\* finally of the feeder: close the encoder's stdin, close the session
FeederClose ==
    /\ enc_fpc = "closing"
    /\ enc_stdin' = "closed"
    /\ enc_session' = EncClose
    /\ enc_fpc' = "done"
    /\ UNCHANGED <<enc_size, enc_pc, enc_status, enc_pos, enc_proc, enc_in,
                   enc_pending, enc_emitted, enc_out, enc_held, enc_body,
                   enc_stop, enc_gone, enc_crashed>>
    /\ UNCHANGED <<now, tokenVars, cacheVars, directVars, gateVars, dlVars,
                   scanVars, enc_err>>

\* the encoder reads a chunk from its stdin and has an output block ready
EncoderConsume ==
    /\ enc_proc = "running"
    /\ enc_in > 0
    /\ enc_pending = 0
    /\ enc_in' = enc_in - 1
    /\ enc_pending' = 1
    /\ UNCHANGED <<enc_size, enc_pc, enc_status, enc_fpc, enc_pos, enc_proc,
                   enc_emitted, enc_out, enc_held, enc_body, enc_stop,
                   enc_gone, enc_stdin, enc_session, enc_crashed>>
    /\ UNCHANGED <<now, tokenVars, cacheVars, directVars, gateVars, dlVars,
                   scanVars, enc_err>>

\* the encoder writes a ready block to its stdout; the write blocks while
\* the pipe is full
EncoderEmit ==
    /\ enc_proc = "running"
    /\ enc_pending > 0
    /\ Len(enc_out) < EncStdoutRoom
    /\ enc_emitted' = enc_emitted + 1
    /\ enc_out' = Append(enc_out, enc_emitted + 1)
    /\ enc_pending' = enc_pending - 1
    /\ UNCHANGED <<enc_size, enc_pc, enc_status, enc_fpc, enc_pos, enc_proc,
                   enc_in, enc_held, enc_body, enc_stop, enc_gone, enc_stdin,
                   enc_session, enc_crashed>>
    /\ UNCHANGED <<now, tokenVars, cacheVars, directVars, gateVars, dlVars,
                   scanVars, enc_err>>

\* the encoder exits after end of input, once all its output is written
EncoderExit ==
    /\ enc_proc = "running"
    /\ enc_stdin = "closed"
    /\ enc_in = 0
    /\ enc_pending = 0
    /\ enc_proc' = "exited"
    /\ UNCHANGED <<enc_size, enc_pc, enc_status, enc_fpc, enc_pos, enc_in,
                   enc_pending, enc_emitted, enc_out, enc_held, enc_body,
                   enc_stop, enc_gone, enc_stdin, enc_session, enc_crashed>>
    /\ UNCHANGED <<now, tokenVars, cacheVars, directVars, gateVars, dlVars,
                   scanVars, enc_err>>

\* the encoder process dies
EncoderCrash ==
    /\ enc_proc = "running"
    /\ ~enc_crashed
    /\ enc_proc' = "exited"
    /\ enc_crashed' = TRUE
    /\ enc_in' = 0
    /\ enc_pending' = 0
    /\ UNCHANGED <<enc_size, enc_pc, enc_status, enc_fpc, enc_pos, enc_emitted,
                   enc_out, enc_held, enc_body, enc_stop, enc_gone, enc_stdin,
                   enc_session>>
    /\ UNCHANGED <<now, tokenVars, cacheVars, directVars, gateVars, dlVars,
                   scanVars, enc_err>>

\* the encoder writes a line of diagnostics (-stats) to its stderr, a pipe
\* (stderr=asyncio.subprocess.PIPE) that the handler never reads
EncoderLogs ==
    /\ enc_proc = "running"
    /\ enc_err < EncStderrRoom
    /\ enc_err' = enc_err + 1
    /\ UNCHANGED <<enc_size, enc_pc, enc_status, enc_fpc, enc_pos, enc_proc,
                   enc_in, enc_pending, enc_emitted, enc_out, enc_held,
                   enc_body, enc_stop, enc_gone, enc_stdin, enc_session,
                   enc_crashed>>
    /\ UNCHANGED <<now, tokenVars, cacheVars, directVars, gateVars, dlVars,
                   scanVars>>

\* the encoder writes diagnostics while its stderr pipe is full: the write
\* never returns, and the process takes no input and writes no output from
\* then on, without exiting
EncoderHangs ==
    /\ enc_proc = "running"
    /\ enc_err = EncStderrRoom
    /\ enc_proc' = "hung"
    /\ UNCHANGED <<enc_size, enc_pc, enc_status, enc_fpc, enc_pos, enc_in,
                   enc_pending, enc_emitted, enc_out, enc_held, enc_body,
                   enc_stop, enc_gone, enc_stdin, enc_session, enc_crashed>>
    /\ UNCHANGED <<now, tokenVars, cacheVars, directVars, gateVars, dlVars,
                   scanVars, enc_err>>

\* chunk = await proc.stdout.read(128 * 1024) returns a block
HandlerRead ==
    /\ enc_pc = "read"
    /\ enc_out # <<>>
    /\ enc_held' = <<Head(enc_out)>>
    /\ enc_out' = Tail(enc_out)
    /\ enc_pc' = "write"
    /\ UNCHANGED <<enc_size, enc_status, enc_fpc, enc_pos, enc_proc, enc_in,
                   enc_pending, enc_emitted, enc_body, enc_stop, enc_gone,
                   enc_stdin, enc_session, enc_crashed>>
    /\ UNCHANGED <<now, tokenVars, cacheVars, directVars, gateVars, dlVars,
                   scanVars, enc_err>>

\* proc.stdout.read returns b'': the loop ends, finally sets the stop flag
HandlerReadEof ==
    /\ enc_pc = "read"
    /\ enc_out = <<>>
    /\ enc_proc = "exited"
    /\ enc_stop' = TRUE
    /\ enc_pc' = "await_feeder"
    /\ UNCHANGED <<enc_size, enc_status, enc_fpc, enc_pos, enc_proc, enc_in,
                   enc_pending, enc_emitted, enc_out, enc_held, enc_body,
                   enc_gone, enc_stdin, enc_session, enc_crashed>>
    /\ UNCHANGED <<now, tokenVars, cacheVars, directVars, gateVars, dlVars,
                   scanVars, enc_err>>

\* await resp.write(chunk) completes
HandlerWrite ==
    /\ enc_pc = "write"
    /\ ~enc_gone
    /\ enc_body' = enc_body \o enc_held
    /\ enc_held' = <<>>
    /\ enc_pc' = "read"
    /\ UNCHANGED <<enc_size, enc_status, enc_fpc, enc_pos, enc_proc, enc_in,
                   enc_pending, enc_emitted, enc_out, enc_stop, enc_gone,
                   enc_stdin, enc_session, enc_crashed>>
    /\ UNCHANGED <<now, tokenVars, cacheVars, directVars, gateVars, dlVars,
                   scanVars, enc_err>>

\* await resp.write(chunk) raises because the client is gone: stop flag,
\* break, finally
HandlerWriteFails ==
    /\ enc_pc = "write"
    /\ enc_gone
    /\ enc_held' = <<>>
    /\ enc_stop' = TRUE
    /\ enc_pc' = "await_feeder"
    /\ UNCHANGED <<enc_size, enc_status, enc_fpc, enc_pos, enc_proc, enc_in,
                   enc_pending, enc_emitted, enc_out, enc_body, enc_gone,
                   enc_stdin, enc_session, enc_crashed>>
    /\ UNCHANGED <<now, tokenVars, cacheVars, directVars, gateVars, dlVars,
                   scanVars, enc_err>>

\* finally: await feeder_task returns
HandlerFeederDone ==
    /\ enc_pc = "await_feeder"
    /\ enc_fpc = "done"
    /\ enc_pc' = "await_proc"
    /\ UNCHANGED <<enc_size, enc_status, enc_fpc, enc_pos, enc_proc, enc_in,
                   enc_pending, enc_emitted, enc_out, enc_held, enc_body,
                   enc_stop, enc_gone, enc_stdin, enc_session, enc_crashed>>
    /\ UNCHANGED <<now, tokenVars, cacheVars, directVars, gateVars, dlVars,
                   scanVars, enc_err>>

\* finally: await proc.wait() returns; write_eof, return
HandlerProcDone ==
    /\ enc_pc = "await_proc"
    /\ enc_proc = "exited"
    /\ enc_pc' = "done"
    /\ UNCHANGED <<enc_size, enc_status, enc_fpc, enc_pos, enc_proc, enc_in,
                   enc_pending, enc_emitted, enc_out, enc_held, enc_body,
                   enc_stop, enc_gone, enc_stdin, enc_session, enc_crashed>>
    /\ UNCHANGED <<now, tokenVars, cacheVars, directVars, gateVars, dlVars,
                   scanVars, enc_err>>

\* the client closes the connection while the response is being delivered
EncClientDisconnect ==
    /\ enc_pc \in {"read", "write"}
    /\ ~enc_gone
    /\ enc_gone' = TRUE
    /\ UNCHANGED <<enc_size, enc_pc, enc_status, enc_fpc, enc_pos, enc_proc,
                   enc_in, enc_pending, enc_emitted, enc_out, enc_held,
                   enc_body, enc_stop, enc_stdin, enc_session, enc_crashed>>
    /\ UNCHANGED <<now, tokenVars, cacheVars, directVars, gateVars, dlVars,
                   scanVars, enc_err>>

(***************************************************************************)
(* The remote catalog scanner (scanner.py) and the resolve helper          *)
(* (web.py _collect_files_sync): names, the remote tree, the scans and     *)
(* the session each operation opens and closes.                            *)
(***************************************************************************)
\* ".epub"
ExtEpub == <<46, 101, 112, 117, 98>>

\* self.file_extensions / the exts argument, lowered (scanner.py:25)
file_extensions == <<ExtEpub>>

\* "Alice"
NameAlice == <<65, 108, 105, 99, 101>>

\* "Bob - BobBook.epub"
NameBobFlat == <<66, 111, 98, 32, 45, 32, 66, 111, 98, 66, 111, 111, 107, 46, 101, 112, 117, 98>>

\* "Alice - Book1 [PDF].EPUB"
NameAliceFlat == <<65, 108, 105, 99, 101, 32, 45, 32, 66, 111, 111, 107, 49, 32, 91, 80, 68, 70, 93, 46, 69, 80, 85, 66>>

\* "._Bob - BobBook.epub"
NameHiddenFlat == <<46, 95, 66, 111, 98, 32, 45, 32, 66, 111, 98, 66, 111, 111, 107, 46, 101, 112, 117, 98>>

\* "Book1.epub"
NameBook1 == <<66, 111, 111, 107, 49, 46, 101, 112, 117, 98>>

\* "Book2"
NameBook2 == <<66, 111, 111, 107, 50>>

\* "Book_3"
NameBook3 == <<66, 111, 111, 107, 95, 51>>

\* "Book2.epub"
NameBook2File == <<66, 111, 111, 107, 50, 46, 101, 112, 117, 98>>

\* "notes.txt"
NameNotes == <<110, 111, 116, 101, 115, 46, 116, 120, 116>>

\* "Extras"
NameExtras == <<69, 120, 116, 114, 97, 115>>

\* "deep.epub"
NameDeep == <<100, 101, 101, 112, 46, 101, 112, 117, 98>>

\* "part_1 (v2).epub"
NamePart == <<112, 97, 114, 116, 95, 49, 32, 40, 118, 50, 41, 46, 101, 112, 117, 98>>

\* "clip.mkv"
NameClip == <<99, 108, 105, 112, 46, 109, 107, 118>>

\* the titles and keys of the example tree: "Book1", "Book2", "BobBook", "Bob"
TitleBook1 == <<66, 111, 111, 107, 49>>
TitleBook2 == <<66, 111, 111, 107, 50>>
TitleBobBook == <<66, 111, 98, 66, 111, 111, 107>>
KeyBob == <<66, 111, 98>>

\* "Ali", a second author directory, and "Zed", an author of nothing
NameAli == <<65, 108, 105>>
KeyZed == <<90, 101, 100>>

\* the directory a scan starts from (self.root_path, root_path)
ScanRoot == 0

\* the entries the remote may hold: name, S_ISDIR of st_mode, parent directory;
\* the scans run over the entries NodeIds, the book lookups over LookupNodes
NodeIds == 1..13

Node(id) ==
    CASE id = 1 -> [name |-> NameAlice, dir |-> TRUE, parent |-> 0]
      [] id = 2 -> [name |-> NameBobFlat, dir |-> FALSE, parent |-> 0]
      [] id = 3 -> [name |-> NameAliceFlat, dir |-> FALSE, parent |-> 0]
      [] id = 4 -> [name |-> NameHiddenFlat, dir |-> FALSE, parent |-> 0]
      [] id = 5 -> [name |-> NameBook1, dir |-> FALSE, parent |-> 1]
      [] id = 6 -> [name |-> NameBook2, dir |-> TRUE, parent |-> 1]
      [] id = 7 -> [name |-> NameBook3, dir |-> TRUE, parent |-> 1]
      [] id = 8 -> [name |-> NameBook2File, dir |-> FALSE, parent |-> 6]
      [] id = 9 -> [name |-> NameNotes, dir |-> FALSE, parent |-> 6]
      [] id = 10 -> [name |-> NameExtras, dir |-> TRUE, parent |-> 7]
      [] id = 11 -> [name |-> NameDeep, dir |-> FALSE, parent |-> 10]
      [] id = 12 -> [name |-> NamePart, dir |-> FALSE, parent |-> 7]
      [] id = 13 -> [name |-> NameClip, dir |-> FALSE, parent |-> 1]
      [] id = 14 -> [name |-> NameAli, dir |-> TRUE, parent |-> 0]
      [] id = 15 -> [name |-> NameBook1, dir |-> FALSE, parent |-> 14]

\* the directories of the remote tree t, the root included
Dirs(t) == {ScanRoot} \cup {n \in t : Node(n).dir}

\* the entries sftp.listdir_attr(d) returns
Children(t, d) == {n \in t : Node(n).parent = d}

\* the trees the remote may hold: every entry lies in a directory that exists
Trees == {t \in SUBSET NodeIds : \A n \in t : Node(n).parent \in Dirs(t)}

\* the entries below the directories in ds, at any depth
RECURSIVE Below(_, _)
Below(t, ds) ==
    LET kids == {n \in t : Node(n).parent \in ds}
    IN  IF kids = {} THEN {} ELSE kids \cup Below(t, kids)

\* _matches_extension: the lowered name ends with one of self.file_extensions
_matches_extension(filename) ==
    \E i \in 1..Len(file_extensions) :
        EndsWith(Lower(filename), file_extensions[i])

\* _strip_extension: the first extension of the list that fits is cut off
_strip_extension(filename) ==
    LET hits == {i \in 1..Len(file_extensions) :
                    EndsWith(Lower(filename), file_extensions[i])}
    IN  IF hits = {} THEN filename
        ELSE LET i == CHOOSE i \in hits : \A j \in hits : i <= j
             IN  SubSeq(filename, 1, Len(filename) - Len(file_extensions[i]))

\* _matches_any_ext: the lowered name ends with one of the lowered exts
_matches_any_ext(filename, exts) ==
    \E i \in 1..Len(exts) : EndsWith(Lower(filename), Lower(exts[i]))

\* _strip_any_ext
_strip_any_ext(filename, exts) ==
    LET hits == {i \in 1..Len(exts) : EndsWith(Lower(filename), Lower(exts[i]))}
    IN  IF hits = {} THEN filename
        ELSE LET i == CHOOSE i \in hits : \A j \in hits : i <= j
             IN  SubSeq(filename, 1, Len(filename) - Len(exts[i]))

\* '[', '{', '(' and ']', '}', ')'
IsOpener(c) == c \in {91, 123, 40}

IsCloser(c) == c \in {93, 125, 41}

\* re.sub(r"[\[\{\(].*?[\]\}\)]", "", title): from an opening bracket to the
\* nearest closing bracket of any kind; an opener with no closer stays
RECURSIVE RemoveTags(_)
RemoveTags(s) ==
    IF s = <<>> THEN <<>>
    ELSE IF IsOpener(Head(s)) /\ \E j \in 2..Len(s) : IsCloser(s[j])
         THEN LET j == CHOOSE j \in 2..Len(s) :
                           /\ IsCloser(s[j])
                           /\ \A k \in 2..(j - 1) : ~IsCloser(s[k])
              IN  RemoveTags(SubSeq(s, j + 1, Len(s)))
         ELSE <<Head(s)>> \o RemoveTags(Tail(s))

\* re.sub(r"[_]+", " ", t): a run of underscores becomes one space
RECURSIVE SquashUnderscores(_, _)
SquashUnderscores(s, inRun) ==
    IF s = <<>> THEN <<>>
    ELSE IF Head(s) = UNDERSCORE
         THEN (IF inRun THEN <<>> ELSE <<SPACE>>)
              \o SquashUnderscores(Tail(s), TRUE)
         ELSE <<Head(s)>> \o SquashUnderscores(Tail(s), FALSE)

\* str.strip()
Strip(s) == StripLeft(StripRight(s))

\* variant: tags and underscores are left in the title
_clean_title_untouched(title) == Strip(title)

\* _clean_title
_clean_title(title) == Strip(SquashUnderscores(RemoveTags(title), FALSE))

\* the last index of the whitespace run that starts at i (i - 1: no run)
WsRunEnd(s, i) ==
    CHOOSE m \in (i - 1)..Len(s) :
        /\ \A j \in i..m : IsSpace(s[j])
        /\ m = Len(s) \/ ~IsSpace(s[m + 1])

\* re.match(r"^(.+?)\s+-\s+(.+)$", base): the lengths k of a first group
\* after which whitespace, '-', whitespace and at least one character follow
FlatSplits(base) ==
    {k \in 1..Len(base) :
        LET m == WsRunEnd(base, k + 1)
        IN  /\ m >= k + 1
            /\ m + 3 <= Len(base)
            /\ base[m + 1] = DASH
            /\ IsSpace(base[m + 2])}

\* <<>> when the pattern does not match, else <<(author, book)>> with
\* author = m.group(1).strip(), book = _clean_title(m.group(2).strip());
\* the first group is the shortest that lets the pattern match
FlatMatch(base) ==
    IF FlatSplits(base) = {} THEN <<>>
    ELSE LET k == CHOOSE k \in FlatSplits(base) :
                      \A j \in FlatSplits(base) : k <= j
             d == WsRunEnd(base, k + 1) + 1
         IN  <<<<Strip(SubSeq(base, 1, k)),
                 _clean_title(Strip(SubSeq(base, d + 1, Len(base))))>>>>

\* variant: a subdirectory counts when a matching file lies anywhere below it
_has_matching_files_below(t, bad, dir_path) ==
    /\ dir_path \notin bad
    /\ \E e \in Below(t, {dir_path}) : _matches_extension(Node(e).name)

\* _has_matching_files: some entry of the directory has a matching name;
\* False when listing it raises IOError (bad: the directories that do)
_has_matching_files(t, bad, dir_path) ==
    /\ dir_path \notin bad
    /\ \E e \in Children(t, dir_path) : _matches_extension(Node(e).name)

\* _collect_books_in_author_dir: the titles found in one author directory
_collect_books_in_author_dir(t, bad, author_path) ==
    IF author_path \in bad THEN {}
    ELSE {_clean_title(Node(e).name) :
             e \in {x \in Children(t, author_path) :
                       Node(x).dir /\ _has_matching_files(t, bad, x)}}
         \cup
         {_clean_title(_strip_extension(Node(e).name)) :
             e \in {x \in Children(t, author_path) :
                       ~Node(x).dir /\ _matches_extension(Node(x).name)}}

\* _collect_flat_books_in_root: (author, book) of the root entries named
\* "Author - Book.ext"; names that start with '.' are skipped
_collect_flat_books_in_root(t, bad, root) ==
    IF root \in bad THEN {}
    ELSE {FlatMatch(_strip_extension(Node(e).name))[1] :
             e \in {x \in Children(t, root) :
                       /\ ~StartsWith(Node(x).name, <<DOT>>)
                       /\ _matches_extension(Node(x).name)
                       /\ FlatMatch(_strip_extension(Node(x).name)) # <<>>}}

\* scan_library: the catalog as the set of (author, book) pairs; an author
\* with no book has no key, the lists are deduplicated and sorted
scan_library(t, bad) ==
    UNION {{<<Node(a).name, b>> : b \in _collect_books_in_author_dir(t, bad, a)} :
              a \in {x \in Children(t, ScanRoot) : Node(x).dir}}
    \cup _collect_flat_books_in_root(t, bad, ScanRoot)

\* _dir_has_any_matching
_dir_has_any_matching(t, bad, dir_path, exts) ==
    /\ dir_path \notin bad
    /\ \E e \in Children(t, dir_path) : _matches_any_ext(Node(e).name, exts)

\* _collect_matching_files_in_dir: nothing when listing the directory raises
\* IOError; directories inside it are entered only when recurse is set
RECURSIVE _collect_matching_files_in_dir(_, _, _, _, _)
_collect_matching_files_in_dir(t, bad, dir_path, exts, recurse) ==
    IF dir_path \in bad THEN {}
    ELSE UNION {IF Node(e).dir
                THEN IF recurse
                     THEN _collect_matching_files_in_dir(t, bad, e, exts, TRUE)
                     ELSE {}
                ELSE IF _matches_any_ext(Node(e).name, exts)
                     THEN {_clean_title(_strip_any_ext(Node(e).name, exts))}
                     ELSE {} : e \in Children(t, dir_path)}

\* scan_movies: the titles, as pairs with an empty group key
scan_movies(t, bad, exts) ==
    {<<<<>>, _clean_title(Node(e).name)>> :
        e \in {x \in Children(t, ScanRoot) :
                  Node(x).dir /\ _dir_has_any_matching(t, bad, x, exts)}}
    \cup
    {<<<<>>, _clean_title(_strip_any_ext(Node(e).name, exts))>> :
        e \in {x \in Children(t, ScanRoot) :
                  ~Node(x).dir /\ _matches_any_ext(Node(x).name, exts)}}

\* variant: season folders are searched at every depth
ShowEpisodesAnyDepth(t, bad, show_path, exts) ==
    _collect_matching_files_in_dir(t, bad, show_path, exts, TRUE)

\* the episodes of one show directory: its own files and those of the
\* directories directly inside it; none when listing the show raises IOError
ShowEpisodes(t, bad, show_path, exts) ==
    IF show_path \in bad THEN {}
    ELSE UNION {IF Node(e).dir
                THEN _collect_matching_files_in_dir(t, bad, e, exts, FALSE)
                ELSE IF _matches_any_ext(Node(e).name, exts)
                     THEN {_clean_title(_strip_any_ext(Node(e).name, exts))}
                     ELSE {} : e \in Children(t, show_path)}

\* scan_tv: (show, episode) pairs; a flat file under the root is skipped
scan_tv(t, bad, exts) ==
    UNION {{<<Node(s).name, ep>> : ep \in ShowEpisodes(t, bad, s, exts)} :
              s \in {x \in Children(t, ScanRoot) : Node(x).dir}}

\* scan_music: (artist, track) pairs; a matching flat file is its own artist
scan_music(t, bad, exts) ==
    UNION {{<<Node(a).name, tr>> :
               tr \in _collect_matching_files_in_dir(t, bad, a, exts, TRUE)} :
              a \in {x \in Children(t, ScanRoot) : Node(x).dir}}
    \cup
    {<<Node(e).name, _clean_title(_strip_any_ext(Node(e).name, exts))>> :
        e \in {x \in Children(t, ScanRoot) :
                  ~Node(x).dir /\ _matches_any_ext(Node(x).name, exts)}}

\* the four scans and the two resolve operations
ScanKinds == {"scan_library", "scan_movies", "scan_tv", "scan_music"}

ResolveKinds == {"find_book_file", "_collect_files_sync"}

OpKinds == ScanKinds \cup ResolveKinds

\* what a scan returns when listing the root succeeds
ScanResult(kind, t, bad) ==
    CASE kind = "scan_library" -> scan_library(t, bad)
      [] kind = "scan_movies" -> scan_movies(t, bad, file_extensions)
      [] kind = "scan_tv" -> scan_tv(t, bad, file_extensions)
      [] kind = "scan_music" -> scan_music(t, bad, file_extensions)

\* how many levels below the root a scan lists: scan_movies the entries of
\* the root, scan_library and scan_tv one level more, scan_music every level
ScanDepth(kind) ==
    CASE kind = "scan_movies" -> 1
      [] kind \in {"scan_library", "scan_tv"} -> 2
      [] kind = "scan_music" -> Cardinality(NodeIds)

\* the directories listed from the directories ds on, depth levels down; a
\* directory whose listing raises is not entered
RECURSIVE ListedFrom(_, _, _, _)
ListedFrom(t, bad, ds, depth) ==
    LET next == {n \in t : Node(n).dir /\ Node(n).parent \in ds \ bad}
    IN  IF depth = 0 \/ next = {} THEN ds
        ELSE ds \cup ListedFrom(t, bad, next, depth - 1)

\* the directories a scan calls sftp.listdir_attr on
ListedDirs(kind, t, bad) == ListedFrom(t, bad, {ScanRoot}, ScanDepth(kind))

\* Python's str "<": code point by code point, a proper prefix comes first
LexLess(a, b) ==
    \E i \in 1..Len(b) :
        /\ \A j \in 1..(i - 1) : j <= Len(a) /\ a[j] = b[j]
        /\ i > Len(a) \/ a[i] < b[i]

\* sorted(list(set(xs))) for the strings in S
RECURSIVE SortedList(_)
SortedList(S) ==
    IF S = {} THEN <<>>
    ELSE LET least == CHOOSE x \in S : \A y \in S \ {x} : LexLess(x, y)
         IN  <<least>> \o SortedList(S \ {least})

\* the entries of S in the order the listing returned them
RECURSIVE ListingOrder(_)
ListingOrder(S) ==
    IF S = {} THEN <<>>
    ELSE LET first == CHOOSE x \in S : \A y \in S : x <= y
         IN  <<first>> \o ListingOrder(S \ {first})

\* the strings of a list, as a set
Elems(xs) == {xs[i] : i \in 1..Len(xs)}

\* scan_library line 57: result[author_name] = sorted(list(set(books))) for
\* every author directory with a book; a dict as a set of (key, list) records
AuthorLists(t, bad) ==
    {[key |-> Node(a).name,
      titles |-> SortedList(_collect_books_in_author_dir(t, bad, a))] :
        a \in {x \in Children(t, ScanRoot) :
                  /\ Node(x).dir
                  /\ _collect_books_in_author_dir(t, bad, x) # {}}}

\* the (author, book) pairs of the flat files, in listing order
FlatList(t, bad) ==
    IF ScanRoot \in bad THEN <<>>
    ELSE LET es == ListingOrder({x \in Children(t, ScanRoot) :
                      /\ ~StartsWith(Node(x).name, <<DOT>>)
                      /\ _matches_extension(Node(x).name)
                      /\ FlatMatch(_strip_extension(Node(x).name)) # <<>>})
         IN  [i \in 1..Len(es) |->
                 FlatMatch(_strip_extension(Node(es[i]).name))[1]]

\* result.setdefault(author, []).append(book) for every flat file
RECURSIVE AppendFlat(_, _)
AppendFlat(d, flat) ==
    IF flat = <<>> THEN d
    ELSE LET author == Head(flat)[1]
             book == Head(flat)[2]
             old == {r \in d : r.key = author}
             list == IF old = {} THEN <<>>
                     ELSE (CHOOSE r \in old : TRUE).titles
         IN  AppendFlat((d \ old) \cup
                            {[key |-> author, titles |-> Append(list, book)]},
                        Tail(flat))

\* variant: the lists are returned as they are after the flat files were added
DedupAndSortSkipped(d) == d

\* scan_library lines 63-69: every list is deduplicated and sorted again, a
\* key whose list is empty is dropped
DedupAndSort(d) ==
    {[key |-> r.key, titles |-> SortedList(Elems(r.titles))] :
        r \in {x \in d : x.titles # <<>>}}

\* the dict scan_library returns
LibraryCatalog(t, bad) ==
    DedupAndSort(AppendFlat(AuthorLists(t, bad), FlatList(t, bad)))

\* the dict scan_tv and scan_music return, and the list scan_movies returns
\* under the empty key: sorted(list(set(...))) of the titles of each group
GroupedCatalog(pairs) ==
    {[key |-> k,
      titles |-> SortedList({p[2] : p \in {q \in pairs : q[1] = k}})] :
        k \in {p[1] : p \in pairs}}

\* the catalog a scan returns, with its lists in order
ScanCatalog(kind, t, bad) ==
    IF kind = "scan_library" THEN LibraryCatalog(t, bad)
    ELSE GroupedCatalog(ScanResult(kind, t, bad))

\* cfg.movie_extensions, cfg.tv_extensions, cfg.music_extensions: a list that
\* holds a video extension and one that is no video extension
media_extensions == <<ExtEpub, ExtMkv>>

\* self.scanner.root_path and the cfg.<category>_root_path: "/lib"
RootPath == <<47, 108, 105, 98>>

\* posixpath.join of the root and the names down to the entry
RECURSIVE PathOf(_)
PathOf(n) ==
    IF n = ScanRoot THEN RootPath
    ELSE PathOf(Node(n).parent) \o <<47>> \o Node(n).name

\* sftp.stat(path).st_size: every entry has a size of its own
SizeOf(n) == n

\* sub in s (Python's substring test)
Contains(s, sub) ==
    \E i \in 0..(Len(s) - Len(sub)) : SubSeq(s, i + 1, i + Len(sub)) = sub

\* _normalize_title
_normalize_title(title) == Lower(_clean_title(title))

\* re.match(r"^(.+?)\s*\|\s*(.+)$", name): the lengths k of a first group
\* after which optional whitespace, '|' and at least one character follow
SelectorSplits(name) ==
    {k \in 1..Len(name) :
        LET m == WsRunEnd(name, k + 1)
        IN  /\ m + 2 <= Len(name)
            /\ name[m + 1] = 124}

\* the author and the book title _collect_files_sync takes from the name;
\* title is <<>> for None, else <<book_title>>
ParseSelector(name) ==
    IF SelectorSplits(name) = {}
    THEN [author |-> Strip(name), title |-> <<>>]
    ELSE LET k == CHOOSE k \in SelectorSplits(name) :
                      \A j \in SelectorSplits(name) : k <= j
             m == WsRunEnd(name, k + 1)
         IN  [author |-> Strip(SubSeq(name, 1, k)),
              title |-> <<Strip(SubSeq(name, m + 2, Len(name)))>>]

\* the file counts: its name has one of the extensions and, when a title is
\* given, its base name equals the title after normalization
FileHit(n, exts, title) ==
    /\ _matches_any_ext(Node(n).name, exts)
    /\ title # <<>> =>
          _normalize_title(_strip_any_ext(Node(n).name, exts))
              = _normalize_title(title[1])

\* the walk of one group directory: of every entry that is a directory the
\* files inside it, of every other entry the entry itself
RECURSIVE WalkEntries(_, _, _, _)
WalkEntries(t, es, exts, title) ==
    IF es = <<>> THEN <<>>
    ELSE (IF Node(Head(es)).dir
          THEN ListingOrder({f \in Children(t, Head(es)) :
                                FileHit(f, exts, title)})
          ELSE IF FileHit(Head(es), exts, title) THEN <<Head(es)>> ELSE <<>>)
         \o WalkEntries(t, Tail(es), exts, title)

\* the first entry of the root whose lowered name equals or contains the
\* lowered author (the loop breaks there); <<>> when there is none
AuthorEntry(t, author) ==
    LET hits == {n \in Children(t, ScanRoot) :
                    Contains(Lower(Node(n).name), Lower(author))}
    IN  IF hits = {} THEN <<>> ELSE <<ListingOrder(hits)[1]>>

\* kind == 'books', no entry for the author and a title given: the flat
\* files of the root whose title part equals the title after normalization
FlatFallback(t, title) ==
    ListingOrder({n \in Children(t, ScanRoot) :
        /\ _matches_extension(Node(n).name)
        /\ LET hit == FlatSplits(_strip_extension(Node(n).name))
               base == _strip_extension(Node(n).name)
           IN  /\ hit # {}
               /\ LET k == CHOOSE k \in hit : \A j \in hit : k <= j
                      d == WsRunEnd(base, k + 1) + 1
                  IN  _normalize_title(SubSeq(base, d + 2, Len(base)))
                          = _normalize_title(title)})

\* kind == 'books': the entries collected, in order
CollectBooks(t, name) ==
    LET sel == ParseSelector(name)
        a == AuthorEntry(t, sel.author)
    IN  IF a # <<>>
        THEN WalkEntries(t, ListingOrder(Children(t, a[1])), file_extensions,
                         sel.title)
        ELSE IF sel.title # <<>> THEN FlatFallback(t, sel.title[1])
        ELSE <<>>

\* kind == 'movies': of every directory whose lowered name contains the
\* lowered name the files inside it, and every file whose lowered base name
\* contains it
RECURSIVE CollectMovies(_, _, _)
CollectMovies(t, es, target) ==
    IF es = <<>> THEN <<>>
    ELSE LET e == Head(es)
         IN  (IF Node(e).dir
              THEN IF Contains(Lower(Node(e).name), target)
                   THEN ListingOrder({f \in Children(t, e) :
                            FileHit(f, media_extensions, <<>>)})
                   ELSE <<>>
              ELSE IF /\ FileHit(e, media_extensions, <<>>)
                      /\ Contains(Lower(_strip_any_ext(Node(e).name,
                                                      media_extensions)),
                                  target)
                   THEN <<e>>
                   ELSE <<>>)
             \o CollectMovies(t, Tail(es), target)

\* kind == 'tv' and kind == 'music': of every directory of the root whose
\* lowered name contains the lowered name, the walk of that directory
RECURSIVE CollectShows(_, _, _)
CollectShows(t, es, target) ==
    IF es = <<>> THEN <<>>
    ELSE LET e == Head(es)
         IN  (IF Contains(Lower(Node(e).name), target) /\ Node(e).dir
              THEN WalkEntries(t, ListingOrder(Children(t, e)),
                               media_extensions, <<>>)
              ELSE <<>>)
             \o CollectShows(t, Tail(es), target)

\* the entries sftp.listdir_attr is called on besides the root
ResolveListed(kind, name, t) ==
    IF kind = "books"
    THEN LET a == AuthorEntry(t, ParseSelector(name).author)
         IN  IF a = <<>> THEN {}
             ELSE {a[1]} \cup {n \in Children(t, a[1]) : Node(n).dir}
    ELSE LET groups == {n \in Children(t, ScanRoot) :
                           /\ Node(n).dir
                           /\ Contains(Lower(Node(n).name), Lower(name))}
         IN  IF kind = "movies" THEN groups
             ELSE groups
                  \cup {n \in t : Node(n).dir /\ Node(n).parent \in groups}

\* the entries whose listing raises IOError in the call: the root, a
\* directory that cannot be listed, or an entry that is no directory
ResolveFailed(kind, name, t, bad) ==
    IF ScanRoot \in bad THEN {ScanRoot}
    ELSE {n \in ResolveListed(kind, name, t) : ~Node(n).dir \/ n \in bad}

\* the first (path, size) of every path, in order
RECURSIVE Deduplicate(_, _)
Deduplicate(out, seen) ==
    IF out = <<>> THEN <<>>
    ELSE IF Head(out)[1] \in seen THEN Deduplicate(Tail(out), seen)
         ELSE <<Head(out)>> \o Deduplicate(Tail(out), seen \cup {Head(out)[1]})

\* the entry the root loop of find_book_file leaves in author_path: the
\* first whose lowered name equals the lowered author (break), else the last
\* whose lowered name contains it; <<>> when there is none
FindAuthorPath(t, author) ==
    LET root == Children(t, ScanRoot)
        exact == {n \in root : Lower(Node(n).name) = Lower(author)}
        part == {n \in root : Contains(Lower(Node(n).name), Lower(author))}
    IN  IF exact # {} THEN <<ListingOrder(exact)[1]>>
        ELSE IF part # {} THEN <<ListingOrder(part)[Cardinality(part)]>>
        ELSE <<>>

\* no author_path: the first flat file "Author - Book.ext" of the root whose
\* author part equals the author and whose title part equals the title
FindFlat(t, author, book_title) ==
    LET hits == {n \in Children(t, ScanRoot) :
            /\ _matches_extension(Node(n).name)
            /\ LET base == _strip_extension(Node(n).name)
                   hit == FlatSplits(base)
               IN  /\ hit # {}
                   /\ LET k == CHOOSE k \in hit : \A j \in hit : k <= j
                          d == WsRunEnd(base, k + 1) + 1
                      IN  /\ Lower(Strip(SubSeq(base, 1, k))) = Lower(author)
                          /\ _normalize_title(SubSeq(base, d + 2, Len(base)))
                                 = _normalize_title(book_title)}
    IN  IF hits = {} THEN <<>> ELSE <<ListingOrder(hits)[1]>>

\* the search of the author directory: the first file, in listing order,
\* whose base name equals the title after normalization, looked for inside
\* every entry that is a directory; a listing that raises IOError ends the
\* search with None
RECURSIVE FindInEntries(_, _, _, _)
FindInEntries(t, bad, es, book_title) ==
    IF es = <<>> THEN <<>>
    ELSE IF Node(Head(es)).dir
    THEN IF Head(es) \in bad THEN <<>>
         ELSE LET hits == {f \in Children(t, Head(es)) :
                              FileHit(f, file_extensions, <<book_title>>)}
              IN  IF hits # {} THEN <<ListingOrder(hits)[1]>>
                  ELSE FindInEntries(t, bad, Tail(es), book_title)
    ELSE IF FileHit(Head(es), file_extensions, <<book_title>>)
         THEN <<Head(es)>>
         ELSE FindInEntries(t, bad, Tail(es), book_title)

\* find_book_file: <<>> for None, else <<(path, size)>>
find_book_file(t, bad, author, book_title) ==
    LET a == FindAuthorPath(t, author)
        n == IF ScanRoot \in bad THEN <<>>
             ELSE IF a = <<>> THEN FindFlat(t, author, book_title)
             ELSE IF ~Node(a[1]).dir \/ a[1] \in bad THEN <<>>
             ELSE FindInEntries(t, bad, ListingOrder(Children(t, a[1])),
                                book_title)
    IN  [i \in 1..Len(n) |-> <<PathOf(n[i]), SizeOf(n[i])>>]

\* the list _collect_files_sync returns when no listing raises
_collect_files_sync(kind, name, t) ==
    LET root == ListingOrder(Children(t, ScanRoot))
        ns == CASE kind = "books" -> CollectBooks(t, name)
                [] kind = "movies" -> CollectMovies(t, root, Lower(name))
                [] OTHER -> CollectShows(t, root, Lower(name))
    IN  Deduplicate([i \in 1..Len(ns) |-> <<PathOf(ns[i]), SizeOf(ns[i])>>],
                    {})

\* the operations that may run at the same time (executor threads)
ScanOps == {1, 2}

\* self._base_url(): "http://h"
BaseUrl == <<104, 116, 116, 112, 58, 47, 47, 104>>

\* "/d?token=" and "/video?token="
DownloadPrefix == <<47, 100, 63, 116, 111, 107, 101, 110, 61>>
PlayerPrefix == <<47, 118, 105, 100, 101, 111, 63, 116, 111, 107, 101, 110, 61>>

\* the characters urllib.parse.quote leaves as they are: letters, digits,
\* '_', '.', '-', '~' and the default safe character '/'
IsUnreserved(c) ==
    \/ c >= 65 /\ c <= 90
    \/ c >= 97 /\ c <= 122
    \/ IsDigit(c)
    \/ c \in {UNDERSCORE, DOT, DASH, 126, 47}

\* a hexadecimal digit as quote writes it (upper case)
UpperHexDigit(n) == IF n < 10 THEN ZERO + n ELSE 55 + n

\* urllib.parse.quote on ASCII text: every other character becomes %XX
quote(text) ==
    Concat([i \in 1..Len(text) |->
               IF IsUnreserved(text[i]) THEN <<text[i]>>
               ELSE <<37, UpperHexDigit(text[i] \div 16),
                      UpperHexDigit(text[i] % 16)>>])

\* the value of a hexadecimal digit, 16 when the character is none
HexValue(c) ==
    IF IsDigit(c) THEN c - ZERO
    ELSE IF c >= 65 /\ c <= 70 THEN c - 55
    ELSE IF c >= 97 /\ c <= 102 THEN c - 87
    ELSE 16

\* the decoding of a query value: '+' is a space, %XX is the character.
\* A '%' is never one of the two digits of an escape, so an escape starts at
\* every '%' that two hexadecimal digits follow
unquote_plus(text) ==
    LET IsEscape(i) == /\ i >= 1
                       /\ text[i] = 37
                       /\ i + 2 <= Len(text)
                       /\ HexValue(text[i + 1]) < 16
                       /\ HexValue(text[i + 2]) < 16
    IN  Concat([i \in 1..Len(text) |->
            IF IsEscape(i)
            THEN <<HexValue(text[i + 1]) * 16 + HexValue(text[i + 2])>>
            ELSE IF IsEscape(i - 1) \/ IsEscape(i - 2) THEN <<>>
            ELSE <<IF text[i] = PLUS THEN SPACE ELSE text[i]>>])

\* request.query.get('token') of a request for the url: the text after the
\* first '=', which is the one of "token=", decoded
QueryToken(url) ==
    LET i == CHOOSE i \in 1..Len(url) :
                 url[i] = EQUALS /\ \A j \in 1..(i - 1) : url[j] # EQUALS
    IN  unquote_plus(SubSeq(url, i + 1, Len(url)))

\* one (filename, url, size) item for a resolved (path, size), signed at t
LinkItem(prefix, file, t) ==
    [filename |-> Basename(file[1]),
     url |-> BaseUrl \o prefix \o quote(sign_path(file[1], t + LinkTtl)),
     size |-> file[2]]

\* build_links after _collect_files_sync has returned files, at time t
build_links(files, t) ==
    [i \in 1..Len(files) |-> LinkItem(DownloadPrefix, files[i], t)]

\* the file is one _is_video_file accepts
IsVideoEntry(file) == _is_video_file(Basename(file[1]))

\* variant: a player link for every resolved file
build_video_links_unfiltered(files, t) ==
    [i \in 1..Len(files) |-> LinkItem(PlayerPrefix, files[i], t)]

\* build_video_links after _collect_files_sync has returned files, at time t
build_video_links(files, t) ==
    LET videos == SelectSeq(files, IsVideoEntry)
    IN  [i \in 1..Len(videos) |-> LinkItem(PlayerPrefix, videos[i], t)]

(***************************************************************************)
(* The thread every remote call of a handler runs on (web.py).  A coroutine *)
(* and a task made by asyncio.create_task run on the event-loop thread; a   *)
(* function handed to loop.run_in_executor runs on a thread of the pool.    *)
(***************************************************************************)
\* the requests served at the same time
CallRequests == {1, 2}

\* the handlers and streaming coroutines that reach the remote
RemoteHandlers ==
    {"handle_links", "handle_download", "handle_video_player",
     "handle_subtitle", "handle_video_info", "_stream_direct",
     "_probe_video_stream", "_stream_remux_to_mp4",
     "_stream_with_transcoding", "handle_upload"}

\* the thread the code runs on, by the way the handler runs it
ThreadOf(via) == IF via = "run_in_executor" THEN "worker" ELSE "loop"

\* the remote calls of one piece of code, run in one way
Segment(via, calls) ==
    [i \in 1..Len(calls) |-> [via |-> via, call |-> calls[i]]]

\* the remote calls of _collect_files_sync, of a function that reads a file,
\* of get_file_info and of _find_subtitle_files
CallsOfCollect == <<"connect", "listdir", "stat">>
CallsOfRead == <<"connect", "open", "read">>
CallsOfStat == <<"connect", "stat">>
CallsOfSubtitles == <<"connect", "listdir">>

\* the remote calls a handler makes, in order, the video player being enabled
RemotePlan(handler, kind) ==
    CASE handler = "handle_links" ->
            Segment("run_in_executor", CallsOfCollect)
            \o (IF kind \in {"movies", "tv"}
                THEN Segment("call", CallsOfCollect)
                ELSE <<>>)
      [] handler = "handle_download" ->
            Segment("run_in_executor", CallsOfRead)
      [] handler = "handle_video_player" ->
            Segment("call", CallsOfSubtitles)
      [] handler = "handle_subtitle" ->
            Segment("call", CallsOfSubtitles) \o Segment("call", CallsOfRead)
      [] handler = "handle_video_info" ->
            Segment("run_in_executor", CallsOfStat)
      [] handler = "_stream_direct" ->
            Segment("run_in_executor", CallsOfStat)
            \o Segment("run_in_executor", CallsOfRead)
      [] handler = "handle_upload" ->
            Segment("call", <<"connect", "stat", "open">>)
      [] OTHER ->
            Segment("create_task", CallsOfRead)

\* MAX_CONCURRENT_STREAMS, by default
max_concurrent_streams == 3

\* the /stream requests in flight: one more than the configured maximum
StreamRequests == 1..4

PoolIdle ==
    /\ ts_pc = [r \in StreamRequests |-> "idle"]
    /\ ts_strategy = [r \in StreamRequests |-> "none"]
    /\ ts_proc = [r \in StreamRequests |-> "none"]

CallsIdle ==
    /\ th_handler = [r \in CallRequests |-> "none"]
    /\ th_todo = [r \in CallRequests |-> <<>>]
    /\ th_done = [r \in CallRequests |-> {}]
    /\ PoolIdle

\* what the actions on /stream requests leave alone
PoolFrame ==
    /\ UNCHANGED <<now, tokenVars, cacheVars, directVars, gateVars, dlVars,
                   encVars>>
    /\ UNCHANGED <<remote_tree, unlistable, sessions, op_kind, op_pc,
                   op_session, op_result, op_catalog, op_failed, scan_log,
                   resVars>>
    /\ UNCHANGED <<th_handler, th_todo, th_done>>

\* handle_video_stream has verified the token and dispatches to a strategy;
\* the remux and transcode strategies prepare the response first
StreamDispatch(r, strategy) ==
    /\ ts_pc[r] = "idle"
    /\ ts_strategy' = [ts_strategy EXCEPT ![r] = strategy]
    /\ ts_pc' = [ts_pc EXCEPT ![r] =
                    IF strategy = "direct" THEN "direct" ELSE "prepared"]
    /\ UNCHANGED ts_proc
    /\ PoolFrame

\* run_ffmpeg: proc = await asyncio.create_subprocess_exec(...), whatever
\* the number of encoders that are running
SpawnEncoder(r) ==
    /\ ts_pc[r] = "prepared"
    /\ ts_pc' = [ts_pc EXCEPT ![r] = "running"]
    /\ ts_proc' = [ts_proc EXCEPT ![r] = "alive"]
    /\ UNCHANGED ts_strategy
    /\ PoolFrame

\* the encoder process of a request ends
EncoderEnds(r) ==
    /\ ts_proc[r] = "alive"
    /\ ts_proc' = [ts_proc EXCEPT ![r] = "exited"]
    /\ UNCHANGED <<ts_pc, ts_strategy>>
    /\ PoolFrame

\* the handler returns: after await proc.wait() for an encoder strategy
StreamReturns(r) ==
    /\ \/ ts_pc[r] = "direct"
       \/ ts_pc[r] = "running" /\ ts_proc[r] = "exited"
    /\ ts_pc' = [ts_pc EXCEPT ![r] = "done"]
    /\ UNCHANGED <<ts_strategy, ts_proc>>
    /\ PoolFrame

\* a request reaches the handler
HandlerBegins(r, handler, kind) ==
    /\ th_handler[r] = "none"
    /\ th_handler' = [th_handler EXCEPT ![r] = handler]
    /\ th_todo' = [th_todo EXCEPT ![r] = RemotePlan(handler, kind)]
    /\ th_done' = [th_done EXCEPT ![r] = {}]
    /\ UNCHANGED <<now, tokenVars, cacheVars, directVars, gateVars, dlVars,
                   encVars>>
    /\ UNCHANGED <<remote_tree, unlistable, sessions, op_kind, op_pc,
                   op_session, op_result, op_catalog, op_failed, scan_log,
                   resVars, poolVars>>

\* the next remote call of the handler is executed, on the thread its code
\* runs on
RemoteCall(r) ==
    /\ th_todo[r] # <<>>
    /\ th_done' = [th_done EXCEPT ![r] =
           @ \cup {[call |-> Head(th_todo[r]).call,
                    thread |-> ThreadOf(Head(th_todo[r]).via)]}]
    /\ th_todo' = [th_todo EXCEPT ![r] = Tail(@)]
    /\ UNCHANGED th_handler
    /\ UNCHANGED <<now, tokenVars, cacheVars, directVars, gateVars, dlVars,
                   encVars>>
    /\ UNCHANGED <<remote_tree, unlistable, sessions, op_kind, op_pc,
                   op_session, op_result, op_catalog, op_failed, scan_log,
                   resVars, poolVars>>

\* the handler returns
HandlerEnds(r) ==
    /\ th_handler[r] # "none"
    /\ th_todo[r] = <<>>
    /\ th_handler' = [th_handler EXCEPT ![r] = "none"]
    /\ UNCHANGED <<th_todo, th_done>>
    /\ UNCHANGED <<now, tokenVars, cacheVars, directVars, gateVars, dlVars,
                   encVars>>
    /\ UNCHANGED <<remote_tree, unlistable, sessions, op_kind, op_pc,
                   op_session, op_result, op_catalog, op_failed, scan_log,
                   resVars, poolVars>>

\* the arguments of an operation that takes no kind and name
NoArgs == [kind |-> "none", name |-> <<>>]

\* find_book_file(author, book_title) for "Alice", "Book1"
ExampleBook == [kind |-> "books", name |-> NameAlice, title |-> TitleBook1]

\* the operations that build links from what _collect_files_sync returns
LinkKinds == {"build_links", "build_video_links"}

\* the operations that run _collect_files_sync
CollectKinds == {"_collect_files_sync"} \cup LinkKinds

\* the arguments an operation may be called with, selections being those of
\* a resolve
ArgsOf(kind, selections) ==
    IF kind \in CollectKinds THEN selections
    ELSE IF kind = "find_book_file" THEN {ExampleBook}
    ELSE {NoArgs}

\* no operation has started and no session was ever opened
ScanOpsIdle ==
    /\ sessions = <<>>
    /\ op_kind = [o \in ScanOps |-> "none"]
    /\ op_pc = [o \in ScanOps |-> "idle"]
    /\ op_session = [o \in ScanOps |-> 0]
    /\ op_result = [o \in ScanOps |-> {}]
    /\ op_catalog = [o \in ScanOps |-> {}]
    /\ op_failed = [o \in ScanOps |-> {}]
    /\ scan_log = <<>>
    /\ op_args = [o \in ScanOps |-> NoArgs]
    /\ op_files = [o \in ScanOps |-> <<>>]
    /\ op_links = [o \in ScanOps |-> <<>>]
    /\ op_minted = [o \in ScanOps |-> 0]
    /\ CallsIdle

ScanIdle ==
    /\ remote_tree = {}
    /\ unlistable = {}
    /\ ScanOpsIdle

\* variant: one session is opened once and handed to every operation
_connect_pooled(ss) == IF ss = <<>> THEN <<"open">> ELSE ss

\* _connect: a new transport and a new SFTP client on every call; the
\* sessions opened so far with the new one, which is the last
_connect(ss) == Append(ss, "open")

\* sftp = self._connect() succeeds: the operation holds the new session
OpConnect(o, kind, args) ==
    /\ op_pc[o] = "idle"
    /\ sessions' = _connect(sessions)
    /\ op_session' = [op_session EXCEPT ![o] = Len(sessions')]
    /\ op_kind' = [op_kind EXCEPT ![o] = kind]
    /\ op_args' = [op_args EXCEPT ![o] = args]
    /\ op_pc' = [op_pc EXCEPT ![o] = "body"]
    /\ UNCHANGED <<remote_tree, unlistable, op_result, op_catalog, op_failed,
                   scan_log, op_files, op_links, op_minted>>
    /\ UNCHANGED <<now, tokenVars, cacheVars, directVars, gateVars, dlVars,
                   encVars, callVars>>

\* self._connect() raises (before the try): the operation raises and holds
\* no session
OpConnectFails(o, kind) ==
    /\ op_pc[o] = "idle"
    /\ op_kind' = [op_kind EXCEPT ![o] = kind]
    /\ op_pc' = [op_pc EXCEPT ![o] = "raised"]
    /\ UNCHANGED <<remote_tree, unlistable, sessions, op_session, op_result,
                   op_catalog,
                   op_failed, scan_log, resVars>>
    /\ UNCHANGED <<now, tokenVars, cacheVars, directVars, gateVars, dlVars,
                   encVars, callVars>>

\* the two logger.info calls of scan_tv: the number of shows found, and the
\* progress line of every tenth show (the first one included)
TvLogLines(t) ==
    <<[level |-> "info", msg |-> "found shows"]>>
    \o (IF Children(t, ScanRoot) = {} THEN <<>>
        ELSE <<[level |-> "info", msg |-> "processing show"]>>)

\* the try block of a scan: listing the root raises out of the scan; every
\* other listing error is handled where it happens, without a log call
ScanBody(o) ==
    /\ op_pc[o] = "body"
    /\ op_kind[o] \in ScanKinds
    /\ IF ScanRoot \in unlistable
       THEN /\ op_pc' = [op_pc EXCEPT ![o] = "finally_raise"]
            /\ op_failed' = [op_failed EXCEPT ![o] = {ScanRoot}]
            /\ UNCHANGED <<op_result, op_catalog, scan_log>>
       ELSE /\ op_pc' = [op_pc EXCEPT ![o] = "finally_return"]
            /\ op_result' = [op_result EXCEPT ![o] =
                   ScanResult(op_kind[o], remote_tree, unlistable)]
            /\ op_catalog' = [op_catalog EXCEPT ![o] =
                   ScanCatalog(op_kind[o], remote_tree, unlistable)]
            /\ op_failed' = [op_failed EXCEPT ![o] =
                   ListedDirs(op_kind[o], remote_tree, unlistable)
                       \cap unlistable]
            /\ scan_log' = IF op_kind[o] = "scan_tv"
                           THEN scan_log \o TvLogLines(remote_tree)
                           ELSE scan_log
    /\ UNCHANGED <<remote_tree, unlistable, sessions, op_kind, op_session,
                   resVars>>
    /\ UNCHANGED <<now, tokenVars, cacheVars, directVars, gateVars, dlVars,
                   encVars, callVars>>

\* the try block of find_book_file: an IOError of any listing or stat is
\* caught and None is returned
FindBookFileBody(o) ==
    /\ op_pc[o] = "body"
    /\ op_kind[o] = "find_book_file"
    /\ op_pc' = [op_pc EXCEPT ![o] = "finally_return"]
    /\ op_files' = [op_files EXCEPT ![o] =
           find_book_file(remote_tree, unlistable, op_args[o].name,
                          op_args[o].title)]
    /\ UNCHANGED <<remote_tree, unlistable, sessions, op_kind, op_session,
                   op_result, op_catalog, op_failed, scan_log, op_args,
                   op_links, op_minted>>
    /\ UNCHANGED <<now, tokenVars, cacheVars, directVars, gateVars, dlVars,
                   encVars, callVars>>

\* the try block of _collect_files_sync: nothing is caught, so an IOError of
\* the root listing, or of a listing the selector leads to, raises
CollectFilesBody(o) ==
    /\ op_pc[o] = "body"
    /\ op_kind[o] \in CollectKinds
    /\ LET failed == ResolveFailed(op_args[o].kind, op_args[o].name,
                                   remote_tree, unlistable)
       IN  /\ op_failed' = [op_failed EXCEPT ![o] = failed]
           /\ IF failed # {}
              THEN /\ op_pc' = [op_pc EXCEPT ![o] = "finally_raise"]
                   /\ UNCHANGED op_files
              ELSE /\ op_pc' = [op_pc EXCEPT ![o] = "finally_return"]
                   /\ op_files' = [op_files EXCEPT ![o] =
                          _collect_files_sync(op_args[o].kind,
                                              op_args[o].name, remote_tree)]
    /\ UNCHANGED <<remote_tree, unlistable, sessions, op_kind, op_session,
                   op_result, op_catalog, scan_log, op_args, op_links,
                   op_minted>>
    /\ UNCHANGED <<now, tokenVars, cacheVars, directVars, gateVars, dlVars,
                   encVars, callVars>>

\* the connection drops inside the try block: the exception is not an
\* IOError, no handler of the body catches it
OpDrops(o) ==
    /\ op_pc[o] = "body"
    /\ op_pc' = [op_pc EXCEPT ![o] = "finally_raise"]
    /\ UNCHANGED <<remote_tree, unlistable, sessions, op_kind, op_session,
                   op_result, op_catalog, op_failed, scan_log, resVars>>
    /\ UNCHANGED <<now, tokenVars, cacheVars, directVars, gateVars, dlVars,
                   encVars, callVars>>

\* finally: sftp.close(), then the operation returns or the exception goes on
OpClose(o) ==
    /\ op_pc[o] \in {"finally_return", "finally_raise"}
    /\ sessions' = [sessions EXCEPT ![op_session[o]] = "closed"]
    /\ op_pc' = [op_pc EXCEPT ![o] =
           IF op_pc[o] = "finally_raise" THEN "raised"
           ELSE IF op_kind[o] \in LinkKinds THEN "collected"
           ELSE "returned"]
    /\ UNCHANGED <<remote_tree, unlistable, op_kind, op_session, op_result,
                   op_catalog,
                   op_failed, scan_log, resVars>>
    /\ UNCHANGED <<now, tokenVars, cacheVars, directVars, gateVars, dlVars,
                   encVars, callVars>>

\* build_links and build_video_links after _collect_files_sync returned:
\* one expiry from time.time(), one signed item per file
SignLinks(o) ==
    /\ op_pc[o] = "collected"
    /\ op_minted' = [op_minted EXCEPT ![o] = now]
    /\ op_links' = [op_links EXCEPT ![o] =
           IF op_kind[o] = "build_links" THEN build_links(op_files[o], now)
           ELSE build_video_links(op_files[o], now)]
    /\ op_pc' = [op_pc EXCEPT ![o] = "returned"]
    /\ UNCHANGED <<remote_tree, unlistable, sessions, op_kind, op_session,
                   op_result, op_catalog, op_failed, scan_log, op_args,
                   op_files>>
    /\ UNCHANGED <<now, tokenVars, cacheVars, directVars, gateVars, dlVars,
                   encVars, callVars>>

\* build_video_links for a kind other than movies and tv: [] is returned
\* before anything is resolved
NoVideoLinks(o, args) ==
    /\ op_pc[o] = "idle"
    /\ args.kind \notin {"movies", "tv"}
    /\ op_kind' = [op_kind EXCEPT ![o] = "build_video_links"]
    /\ op_args' = [op_args EXCEPT ![o] = args]
    /\ op_pc' = [op_pc EXCEPT ![o] = "returned"]
    /\ UNCHANGED <<remote_tree, unlistable, sessions, op_session, op_result,
                   op_catalog, op_failed, scan_log, op_files, op_links,
                   op_minted>>
    /\ UNCHANGED <<now, tokenVars, cacheVars, directVars, gateVars, dlVars,
                   encVars, callVars>>

ExtIdle ==
    GateIdle /\ missing = FALSE /\ DownloadIdle /\ EncoderIdle /\ ScanIdle

\* handle_download up to resp.prepare: "400", "403", "500" (exception out of
\* verify_token) or "prepared" (the 200 streaming response is prepared)
handle_download(token, t) ==
    IF token = <<>> THEN "400"
    ELSE LET v == verify_token(token, t) IN
         IF v.kind = "raise" THEN "500"
         ELSE IF v.kind = "none" \/ v.path = <<>> THEN "403"
         ELSE "prepared"

\* handle_video_player up to the player page
handle_video_player(token, t) ==
    IF token = <<>> THEN "400"
    ELSE LET v == verify_token(token, t) IN
         IF v.kind = "raise" THEN "500"
         ELSE IF v.kind = "none" \/ v.path = <<>> THEN "403"
         ELSE IF ~_is_video_file(Basename(v.path)) THEN "400"
         ELSE "page"

\* handle_subtitle up to the subtitle lookup
handle_subtitle(token, t) ==
    IF token = <<>> THEN "400"
    ELSE LET v == verify_token(token, t) IN
         IF v.kind = "raise" THEN "500"
         ELSE IF v.kind = "none" \/ v.path = <<>> THEN "403"
         ELSE "lookup"

\* variant: the file information is given for any token that is present
handle_video_info_unverified(token, t) ==
    IF token = <<>> THEN "400" ELSE "stat"

\* handle_video_info up to get_file_info
handle_video_info(token, t) ==
    IF token = <<>> THEN "400"
    ELSE LET v == verify_token(token, t) IN
         IF v.kind = "raise" THEN "500"
         ELSE IF v.kind = "none" \/ v.path = <<>> THEN "403"
         ELSE IF ~_is_video_file(Basename(v.path)) THEN "400"
         ELSE "stat"

\* the last index of c in s, 0 when there is none
LastIndexOf(s, c) ==
    IF \E i \in 1..Len(s) : s[i] = c
    THEN CHOOSE i \in 1..Len(s) : s[i] = c /\ \A j \in (i + 1)..Len(s) : s[j] # c
    ELSE 0

\* posixpath.dirname: the part up to the last '/', without trailing
\* slashes unless it is made of slashes only
dirname(path) ==
    LET head == SubSeq(path, 1, LastIndexOf(path, 47))
        keep == {k \in 0..Len(head) : k = 0 \/ head[k] # 47}
        last == CHOOSE k \in keep : \A j \in keep : j <= k
    IN  IF last = 0 THEN head ELSE SubSeq(head, 1, last)

\* posixpath.splitext(name)[0]: the name up to its last dot, the whole name
\* when only dots come before it
splitext_root(name) ==
    LET i == LastIndexOf(name, DOT) IN
    IF i > 1 /\ \E j \in 1..(i - 1) : name[j] # DOT
    THEN SubSeq(name, 1, i - 1)
    ELSE name

\* posixpath.join(a, b) for a relative b
join(a, b) ==
    IF a = <<>> \/ a[Len(a)] = 47 THEN a \o b ELSE a \o <<47>> \o b

\* ".srt"
ExtSrt == <<46, 115, 114, 116>>

\* the sidecar subtitle _find_subtitle_files looks for next to the video
SubtitlePath(video_path) ==
    join(dirname(video_path), splitext_root(Basename(video_path)) \o ExtSrt)

\* values of the quality query parameter: absent, "direct", "remux",
\* "1080p", "720p", "480p", "REMUX", "x"
QDirect == <<100, 105, 114, 101, 99, 116>>
QRemux == <<114, 101, 109, 117, 120>>
Q1080p == <<49, 48, 56, 48, 112>>
Q720p == <<55, 50, 48, 112>>
Q480p == <<52, 56, 48, 112>>
QRemuxUpper == <<82, 69, 77, 85, 88>>
QOther == <<120>>

Qualities == {<<>>, QDirect, QRemux, Q1080p, Q720p, Q480p, QRemuxUpper, QOther}

\* outcomes of probing: the codec is browser-compatible, it is not, the
\* probe raised or gave nothing, ffprobe was not found
Probes == {"compatible", "incompatible", "failed", "unavailable"}

\* filename.lower().endswith(('.mp4', '.m4v'))
IsNativeContainer(filename) ==
    EndsWith(Lower(filename), ExtMp4) \/ EndsWith(Lower(filename), ExtM4v)

\* the quality the handler works with: the lowered parameter, or the default
\* for the container when the parameter is absent or not a known value
EffectiveQuality(filename, q) ==
    IF Lower(q) \in {QDirect, QRemux, Q1080p, Q720p, Q480p}
    THEN Lower(q)
    ELSE IF IsNativeContainer(filename) THEN QDirect ELSE QRemux

\* variant: only a probe that names another codec counts as not compatible
_is_codec_browser_compatible_unless_refuted(pr) == pr # "incompatible"

\* _is_codec_browser_compatible(vstream) for the outcome of the probe
_is_codec_browser_compatible(pr) == pr = "compatible"

\* variant: a missing encoder is answered 503
StrategyEncoderRequired(filename, q, ff, pr) ==
    LET eq == EffectiveQuality(filename, q) IN
    IF eq = QDirect /\ IsNativeContainer(filename) THEN "direct"
    ELSE IF ~ff THEN "503"
    ELSE IF eq = QRemux
         THEN (IF _is_codec_browser_compatible(pr) THEN "remux" ELSE "transcode")
         ELSE "transcode"

\* handle_video_stream after the pre-flight checks: the function the request
\* is handed to
Strategy(filename, q, ff, pr) ==
    LET eq == EffectiveQuality(filename, q) IN
    IF eq = QDirect /\ IsNativeContainer(filename) THEN "direct"
    ELSE IF ~ff THEN "direct"
    ELSE IF eq = QRemux
         THEN (IF _is_codec_browser_compatible(pr) THEN "remux" ELSE "transcode")
         ELSE "transcode"

\* the target_height argument of the call of _stream_with_transcoding that
\* handle_video_stream makes: None (0) from the remux branch, else
\* 1080 if quality == '1080p' else 720 if quality == '720p' else 480
TargetHeight(filename, q) ==
    LET eq == EffectiveQuality(filename, q) IN
    IF eq = QRemux THEN 0
    ELSE IF eq = Q1080p THEN 1080
    ELSE IF eq = Q720p THEN 720
    ELSE 480

\* tokens a client may present for a minted token: none, the token itself,
\* the token without its signature segment, the token with the first or the
\* last character of the signature replaced
TokenVariants(token) ==
    {<<>>, token, SubSeq(token, 1, SigStart(token) - 2)}
    \cup {[token EXCEPT ![i] = c] : i \in {SigStart(token), Len(token)}, c \in TamperChars}

MintedToken == IF link = <<>> THEN <<>> ELSE link[1].token

MintedVariants == IF link = <<>> THEN {} ELSE TokenVariants(link[1].token)

\* one GET on a token endpoint; quality and the encoder lookup only enter
\* the /stream handler
GateRequest(ep, tok, q, ff, pr) ==
    /\ link # <<>>
    /\ endpoint = "none"
    /\ endpoint' = ep
    /\ quality' = q
    /\ ffmpeg' = ff
    /\ probe' = pr
    /\ presented' = tok
    /\ verdict' = IF tok = <<>> THEN <<>> ELSE <<verify_token(tok, now)>>
    /\ verifiedAt' = now
    /\ LET pre == CASE ep = "d" -> handle_download(tok, now)
                    [] ep = "video" -> handle_video_player(tok, now)
                    [] ep = "subtitle" -> handle_subtitle(tok, now)
                    [] ep = "info" -> handle_video_info(tok, now)
                    [] OTHER -> handle_video_stream(tok, now)
       IN  /\ decision' = IF pre = "stream"
                          THEN Strategy(Basename(verdict'[1].path), q, ff, pr)
                          ELSE pre
           /\ target_height' = IF decision' = "transcode"
                               THEN TargetHeight(Basename(verdict'[1].path), q)
                               ELSE -1
    /\ UNCHANGED <<remote_calls, body_kind, body_path>>
    /\ UNCHANGED <<now, link, requests, served, outcome>>
    /\ UNCHANGED <<cacheVars, directVars, dlVars, encVars, scanVars>>

\* the handler goes on after the pre-flight checks: it opens a remote
\* session and makes the body of its response.  /d and /stream read the
\* token's file; /video lists its directory for subtitles and answers with
\* the player page; /subtitle lists the directory and reads the subtitle it
\* found (found), else answers 404; /info stats the file and answers JSON
GateServe(found) ==
    /\ endpoint # "none"
    /\ remote_calls = {}
    /\ body_kind = "none"
    /\ decision \in {"prepared", "direct", "remux", "transcode", "page",
                     "lookup", "stat"}
    /\ LET path == verdict[1].path
           sub == SubtitlePath(path)
       IN  CASE decision = "prepared" ->
                  /\ remote_calls' = {[call |-> "open", path |-> path]}
                  /\ body_kind' = "file"
                  /\ body_path' = <<path>>
             [] decision \in {"direct", "remux", "transcode"} ->
                  /\ remote_calls' =
                        (IF decision = "direct"
                         THEN {[call |-> "stat", path |-> path]} ELSE {})
                        \cup {[call |-> "open", path |-> path]}
                  /\ body_kind' = "file"
                  /\ body_path' = <<path>>
             [] decision = "page" ->
                  /\ remote_calls' = {[call |-> "listdir", path |-> dirname(path)]}
                  /\ body_kind' = "page"
                  /\ body_path' = <<>>
             [] decision = "lookup" ->
                  /\ remote_calls' =
                        {[call |-> "listdir", path |-> dirname(path)]}
                        \cup (IF found THEN {[call |-> "open", path |-> sub]}
                              ELSE {})
                  /\ body_kind' = IF found THEN "file" ELSE "page"
                  /\ body_path' = IF found THEN <<sub>> ELSE <<>>
             [] decision = "stat" ->
                  /\ remote_calls' = {[call |-> "stat", path |-> path]}
                  /\ body_kind' = "json"
                  /\ body_path' = <<>>
    /\ UNCHANGED <<endpoint, quality, ffmpeg, probe, decision, target_height>>
    /\ UNCHANGED <<now, tokenVars, cacheVars, directVars, dlVars, encVars,
                   scanVars>>

Endpoints == {"d", "stream", "video", "subtitle", "info"}

(***************************************************************************)
(* Specifications.                                                         *)
(***************************************************************************)
\* the clock advances
Tick ==
    /\ now < MaxTime
    /\ now' = now + 1
    /\ UNCHANGED <<tokenVars, cacheVars, directVars, extVars>>

\* link tokens: minting, verification, tampering
InitToken ==
    /\ now = StartTime
    /\ ExtIdle
    /\ TokenIdle
    /\ CacheIdle
    /\ rootConfigured = [c \in Cats |-> TRUE]
    /\ DirectIdle

NextToken ==
    \/ \E p \in Paths, e \in (StartTime - 1)..(MaxTime + 1) : SignPath(p, e)
    \/ \E p \in Paths : BuildVideoLinks(p)
    \/ VerifyMinted
    \/ \E i \in 1..MaxTokenLen, c \in TamperChars : VerifyTampered(i, c)
    \/ \E pre \in ExpiryPrefixes : VerifyRespelled(pre)
    \/ Tick

SpecToken == InitToken /\ [][NextToken]_vars

\* /stream requests made with a minted link
NextStream ==
    \/ \E p \in Paths, e \in (StartTime - 1)..(MaxTime + 1) : SignPath(p, e)
    \/ \E p \in Paths : BuildVideoLinks(p)
    \/ HandleVideoStream
    \/ HandleVideoStreamNoToken
    \/ Tick

SpecStream == InitToken /\ [][NextStream]_vars

\* requests on the token endpoints
NextGate ==
    \/ \E p \in Paths, e \in (StartTime - 1)..(MaxTime + 1) : SignPath(p, e)
    \/ \E p \in Paths : BuildVideoLinks(p)
    \/ \E ep \in Endpoints, tok \in MintedVariants :
          GateRequest(ep, tok, <<>>, TRUE, "compatible")
    \/ \E q \in Qualities, ff \in BOOLEAN, pr \in Probes :
          GateRequest("stream", MintedToken, q, ff, pr)
    \/ \E found \in BOOLEAN : GateServe(found)
    \/ Tick

SpecGate == InitToken /\ [][NextGate]_vars

\* one plain download
InitDownload ==
    /\ now = StartTime
    /\ TokenIdle
    /\ CacheIdle
    /\ rootConfigured = [c \in Cats |-> TRUE]
    /\ DirectIdle
    /\ GateIdle
    /\ EncoderIdle
    /\ ScanIdle
    /\ DownloadRequest

\* steps of the handler and the reader thread, timeouts included
DownloadProgress ==
    \/ DlPrepare
    \/ DlOpen
    \/ DlOpenFails
    \/ DlRead
    \/ DlLoopEnds
    \/ DlPutEof
    \/ DlEofTimeout
    \/ DlPutterWakes
    \/ DlGet
    \/ DlWrite
    \/ DlWriteFails

\* failures and the client leaving
DownloadTrouble ==
    \/ DlConnectFails
    \/ DlReadFails
    \/ DlClientDisconnect

NextDownload == DownloadProgress \/ DownloadTrouble

SpecDownload == InitDownload /\ [][NextDownload]_vars

\* the event loop runs every task that can run, the reader thread runs
\* whenever it is not blocked, and a timeout that is due expires
SpecDownloadFair == SpecDownload /\ WF_vars(DownloadProgress)


\* one remux or transcode request
InitEncoder ==
    /\ now = StartTime
    /\ TokenIdle
    /\ CacheIdle
    /\ rootConfigured = [c \in Cats |-> TRUE]
    /\ DirectIdle
    /\ GateIdle
    /\ DownloadIdle
    /\ missing \in BOOLEAN
    /\ ScanIdle
    /\ EncoderRequest

\* steps of the handler, the feeder task and the encoder process
EncoderProgress ==
    \/ EncPrepare
    \/ FeederOpen
    \/ FeederOpenFails
    \/ FeederWrite
    \/ FeederDrained
    \/ FeederPipeBroken
    \/ FeederLoopEnds
    \/ FeederClose
    \/ EncoderConsume
    \/ EncoderEmit
    \/ EncoderExit
    \/ HandlerRead
    \/ HandlerReadEof
    \/ HandlerWrite
    \/ HandlerWriteFails
    \/ HandlerFeederDone
    \/ HandlerProcDone

\* failures and the client leaving
EncoderTrouble ==
    \/ FeederConnectFails
    \/ FeederReadFails
    \/ EncoderCrash
    \/ EncoderLogs
    \/ EncoderHangs
    \/ EncClientDisconnect

NextEncoder == EncoderProgress \/ EncoderTrouble

SpecEncoder == InitEncoder /\ [][NextEncoder]_vars

\* the event loop runs every task that can run and the encoder process
\* runs whenever it is not blocked on a pipe
SpecEncoderFair == SpecEncoder /\ WF_vars(EncoderProgress)

\* catalog caches under one command or upload rescan and the periodic refresh
InitCache ==
    /\ now = StartTime
    /\ ExtIdle
    /\ TokenIdle
    /\ CacheIdle
    /\ rootConfigured \in [Cats -> BOOLEAN]
    /\ rootConfigured["books"]
    /\ DirectIdle

StartCommand(p, kind) ==
    /\ p \in {"c1", "bg"}
    /\ StartTask(p, kind)

NextCache ==
    \/ \E p \in Callers, kind \in {"browse", "update", "background",
                                   "rescan_book", "rescan_music"} : StartCommand(p, kind)
    \/ \E p \in Callers : Resume(p)
    \/ \E p \in Callers, snap \in Snapshots : ScanOk(p, snap)
    \/ \E p \in Callers : ScanFail(p)
    \/ Tick

SpecCache == InitCache /\ [][NextCache]_vars

\* two browseall commands issued together on a freshly started bot
InitPair ==
    /\ now = StartTime
    /\ ExtIdle
    /\ TokenIdle
    /\ CacheIdle
    /\ rootConfigured \in [Cats -> BOOLEAN]
    /\ rootConfigured["books"]
    /\ DirectIdle

StartBrowse(p) ==
    /\ p \in {"c1", "c2"}
    /\ StartTask(p, "browse")

NextPair ==
    \/ \E p \in Callers : StartBrowse(p)
    \/ \E p \in Callers : Resume(p)
    \/ \E p \in Callers, snap \in Snapshots : ScanOk(p, snap)
    \/ \E p \in Callers : ScanFail(p)
    \/ Tick

SpecPair == InitPair /\ [][NextPair]_vars

\* one direct /stream request
InitDirect ==
    /\ now = StartTime
    /\ ExtIdle
    /\ TokenIdle
    /\ CacheIdle
    /\ rootConfigured = [c \in Cats |-> TRUE]
    /\ DirectRequest

NextDirect ==
    \/ PrepareResponse
    \/ ProducerRead
    \/ ProducerFinish
    \/ ProducerError
    \/ ProducerEof
    \/ PutTimeout
    \/ PutterWakes
    \/ ConsumerGet
    \/ ConsumerWrite
    \/ ConsumerWriteFails
    \/ ConsumerFinally
    \/ ClientDisconnect

SpecDirect == InitDirect /\ [][NextDirect]_vars

\* the steps the handler, the producer thread and the event loop take on
\* their own; timeouts, failures and the client's disconnect are not among
\* them
DirectProgress ==
    \/ PrepareResponse
    \/ ProducerRead
    \/ ProducerFinish
    \/ ProducerEof
    \/ PutterWakes
    \/ ConsumerGet
    \/ ConsumerWrite
    \/ ConsumerWriteFails
    \/ ConsumerFinally

\* a direct /stream request for a file of any size of the model, without
\* a Range header or for an open-ended range ("bytes=1-")
InitSlowClient ==
    /\ InitDirect
    /\ range_header \in {<<>>, BytesPrefix \o <<49, DASH>>}

\* the event loop runs every task that can run and the producer thread runs
\* whenever it is not blocked; how long the client takes to read, and with
\* it whether an enqueue times out, is left open
SpecSlowClient == InitSlowClient /\ [][NextDirect]_vars /\ WF_vars(DirectProgress)

\* one request in delivery: plain download, direct, or through the encoder
InitDelivery ==
    /\ now = StartTime
    /\ TokenIdle
    /\ CacheIdle
    /\ rootConfigured = [c \in Cats |-> TRUE]
    /\ GateIdle
    /\ ScanIdle
    /\ \/ DirectRequest /\ missing = FALSE /\ DownloadIdle /\ EncoderIdle
       \/ DirectRequestMissing /\ missing = TRUE /\ DownloadIdle /\ EncoderIdle
       \/ DirectIdle /\ DownloadRequest /\ EncoderIdle
       \/ DirectIdle /\ DownloadIdle /\ missing \in BOOLEAN /\ EncoderRequest

NextDelivery ==
    \/ NextDirect
    \/ GetFileInfoFails
    \/ NextDownload
    \/ NextEncoder

SpecDelivery == InitDelivery /\ [][NextDelivery]_vars

\* the selection "Alice" of the books category
ExampleSelection == [kind |-> "books", name |-> NameAlice]

\* the remote holds any of the trees; the listing of at most one of its
\* directories raises IOError
InitScan ==
    /\ now = StartTime
    /\ TokenIdle
    /\ CacheIdle
    /\ rootConfigured = [c \in Cats |-> TRUE]
    /\ DirectIdle
    /\ GateIdle
    /\ missing = FALSE
    /\ DownloadIdle
    /\ EncoderIdle
    /\ remote_tree \in Trees
    /\ unlistable \in {{}} \cup {{d} : d \in Dirs(remote_tree)}
    /\ ScanOpsIdle

\* one operation at a time, over every tree
NextScan ==
    \/ \E o \in {1}, kind \in OpKinds :
          \E args \in ArgsOf(kind, {ExampleSelection}) :
              OpConnect(o, kind, args)
    \/ \E o \in {1}, kind \in OpKinds : OpConnectFails(o, kind)
    \/ \E o \in {1} : ScanBody(o)
    \/ \E o \in {1} : FindBookFileBody(o)
    \/ \E o \in {1} : CollectFilesBody(o)
    \/ \E o \in {1} : OpDrops(o)
    \/ \E o \in {1} : OpClose(o)

SpecScan == InitScan /\ [][NextScan]_vars

\* the tree /lib/Alice/Book1.epub, /lib/Alice/Book2/Book2.epub,
\* /lib/Bob - BobBook.epub
ExampleTree == {1, 2, 5, 6, 8}

\* the example tree, or an empty remote; at most one listing raises IOError
InitSessions ==
    /\ now = StartTime
    /\ TokenIdle
    /\ CacheIdle
    /\ rootConfigured = [c \in Cats |-> TRUE]
    /\ DirectIdle
    /\ GateIdle
    /\ missing = FALSE
    /\ DownloadIdle
    /\ EncoderIdle
    /\ remote_tree \in {ExampleTree, {}}
    /\ unlistable \in {{}} \cup {{d} : d \in Dirs(remote_tree)}
    /\ ScanOpsIdle

\* the operations run side by side, in any interleaving
NextSessions ==
    \/ \E o \in ScanOps, kind \in OpKinds :
          \E args \in ArgsOf(kind, {ExampleSelection}) :
              OpConnect(o, kind, args)
    \/ \E o \in ScanOps, kind \in OpKinds : OpConnectFails(o, kind)
    \/ \E o \in ScanOps : ScanBody(o)
    \/ \E o \in ScanOps : FindBookFileBody(o)
    \/ \E o \in ScanOps : CollectFilesBody(o)
    \/ \E o \in ScanOps : OpDrops(o)
    \/ \E o \in ScanOps : OpClose(o)

SpecSessions == InitSessions /\ [][NextSessions]_vars

\* the selectors of the model: "ali", "Alice | Book1", "ali|BOOK2 [v2]",
\* "Zed | BobBook"
SelAli == <<97, 108, 105>>
SelAliceBook1 == <<65, 108, 105, 99, 101, 32, 124, 32, 66, 111, 111, 107, 49>>
SelAliBook2 == <<97, 108, 105, 124, 66, 79, 79, 75, 50, 32, 91, 118, 50, 93>>
SelZedBobBook == <<90, 101, 100, 32, 124, 32, 66, 111, 98, 66, 111, 111, 107>>

\* the names a resolve is called with
SelectorNames ==
    {NameAlice, SelAli, KeyBob, SelAliceBook1, SelAliBook2, SelZedBobBook}

\* the (kind, name) pairs a resolve is called with
Selections == [kind : Cats, name : SelectorNames]

\* the entries of the trees a resolve runs on
ResolveNodes == {1, 2, 4, 5, 6, 8, 9, 13}

\* a resolve over any tree of these entries; the listing of at most one of
\* its directories raises IOError
InitResolve ==
    /\ now = StartTime
    /\ TokenIdle
    /\ CacheIdle
    /\ rootConfigured = [c \in Cats |-> TRUE]
    /\ DirectIdle
    /\ GateIdle
    /\ missing = FALSE
    /\ DownloadIdle
    /\ EncoderIdle
    /\ remote_tree \in {t \in Trees : t \subseteq ResolveNodes}
    /\ unlistable \in {{}} \cup {{d} : d \in Dirs(remote_tree)}
    /\ ScanOpsIdle

\* the (kind, name) pairs links are built for
LinkSelections == [kind : Cats, name : {NameAlice, SelAliceBook1}]

\* the calls of the model: a resolve of any selection, links for some
SelectionsOf(kind) ==
    IF kind = "_collect_files_sync" THEN Selections
    ELSE IF kind = "build_links" THEN LinkSelections
    ELSE {a \in LinkSelections : a.kind \in {"movies", "tv"}}

NextResolve ==
    \/ \E kind \in CollectKinds : \E args \in SelectionsOf(kind) :
          OpConnect(1, kind, args)
    \/ \E kind \in CollectKinds : OpConnectFails(1, kind)
    \/ \E args \in LinkSelections : NoVideoLinks(1, args)
    \/ CollectFilesBody(1)
    \/ OpDrops(1)
    \/ OpClose(1)
    \/ SignLinks(1)
    \/ Tick

SpecResolve == InitResolve /\ [][NextResolve]_vars

\* requests served side by side, each by any handler
InitCalls ==
    /\ now = StartTime
    /\ ExtIdle
    /\ TokenIdle
    /\ CacheIdle
    /\ rootConfigured = [c \in Cats |-> TRUE]
    /\ DirectIdle

NextCalls ==
    \/ \E r \in CallRequests, handler \in RemoteHandlers, kind \in Cats :
          HandlerBegins(r, handler, kind)
    \/ \E r \in CallRequests : RemoteCall(r)
    \/ \E r \in CallRequests : HandlerEnds(r)

SpecCalls == InitCalls /\ [][NextCalls]_vars

\* several /stream requests at the same time
InitPool ==
    /\ now = StartTime
    /\ ExtIdle
    /\ TokenIdle
    /\ CacheIdle
    /\ rootConfigured = [c \in Cats |-> TRUE]
    /\ DirectIdle

NextPool ==
    \/ \E r \in StreamRequests, strategy \in {"direct", "remux", "transcode"} :
          StreamDispatch(r, strategy)
    \/ \E r \in StreamRequests : SpawnEncoder(r)
    \/ \E r \in StreamRequests : EncoderEnds(r)
    \/ \E r \in StreamRequests : StreamReturns(r)

SpecPool == InitPool /\ [][NextPool]_vars

(***************************************************************************)
(* Properties of the token codec (checked under SpecToken).                *)
(***************************************************************************)
\* verify_token has been called on the token exactly as sign_path made it
MintedVerified ==
    /\ link # <<>>
    /\ verdict # <<>>
    /\ presented = link[1].token

\* verify_token has been called on the minted token with exactly one
\* character of its signature segment changed
SigTamperVerified ==
    /\ link # <<>>
    /\ verdict # <<>>
    /\ Len(presented) = Len(link[1].token)
    /\ \E i \in SigStart(link[1].token)..Len(link[1].token) :
          /\ presented[i] # link[1].token[i]
          /\ presented = [link[1].token EXCEPT ![i] = presented[i]]

\* C1: for every path p and every expiry e later than the current time,
\* verify_token(sign_path(p, e)) returns p.
C1_RoundTrip ==
    (MintedVerified /\ link[1].exp > verifiedAt)
        => verdict[1] = Accepted(link[1].path)

\* C1 witness: an unexpired token of a non-ASCII path with an extension has
\* been verified and gave its path back
C1_Witness ==
    /\ MintedVerified
    /\ link[1].exp > verifiedAt
    /\ verdict[1].kind = "path"
    /\ Len(link[1].path) = 5
    /\ link[1].path[1] = 233

\* C2: verify_token returns None for any token whose expiry e satisfies
\* now > e, even when its signature segment is the correct HMAC for its path
\* and expiry.
C2_ExpiredRejected ==
    (link # <<>> /\ verdict # <<>> /\ verifiedAt > link[1].exp)
        => verdict[1] = Rejected

\* C2 witness: a correctly signed token has been verified after its expiry
C2_Witness ==
    /\ MintedVerified
    /\ verifiedAt > link[1].exp
    /\ verdict[1] = Rejected

C4_SingleUseServedOnce ==
    (link # <<>> /\ link[1].video /\ now <= link[1].exp) => served <= 1

(***************************************************************************)
(* Properties of the cache and of get-or-scan.                             *)
(***************************************************************************)
\* what the contract of LibraryCache promises for a get() now: the snapshot
\* most recently passed to set(), if there is one and it is at most MaxAge old
FreshSet(c) ==
    IF lastSet[c].at >= 0 /\ now - lastSet[c].at <= MaxAge
    THEN lastSet[c].val
    ELSE "None"

\* in this step task p leaves the scan it was awaiting
ScanEnds(p) == pc[p] = "scan" /\ <<pc'[p], cat'[p]>> # <<pc[p], cat[p]>>

\* C5: LibraryCache.get() returns the snapshot most recently passed to set()
\* exactly when one has been set and now - (time of that set) <= max_age,
\* and None otherwise.  Observed at the callers whose control flow shows the
\* result: a browse task returns the value of a hit (optimistic read or
\* double-check) and goes on to lock and scan on None.
C5_CacheGet ==
    [][\A p \in Callers : task'[p] = "browse" =>
         /\ \A c \in Cats :
              (ret[p][c] = Unset /\ ret'[p][c].via \in {"read", "recheck"})
                 => (ret'[p][c].val = FreshSet(c) /\ FreshSet(c) # "None")
         /\ (pc'[p] \in {"wait", "scan"} /\ <<pc[p], cat[p]>> # <<pc'[p], cat'[p]>>)
                 => FreshSet(cat'[p]) = "None"]_vars

\* C5 witness: a browse task is scanning because get() gave None for a
\* snapshot that is still stored but older than max_age
C5_Witness ==
    \E p \in Callers :
        /\ task[p] = "browse"
        /\ pc[p] = "scan"
        /\ cache[cat[p]].data # "None"
        /\ now - cache[cat[p]].ts > MaxAge

Other(q) == IF q = "c1" THEN "c2" ELSE "c1"

\* task q, woken with the lock after waiting for the other task's scan of
\* the same category, runs on
WaiterResumes(q) == pc[q] = "recheck" /\ pc'[q] # "recheck"

C7_OneScanInFlight ==
    \A c \in Cats : Cardinality({p \in Callers : pc[p] = "scan" /\ cat[p] = c}) <= 1

\* C7 witness: a forced and an unforced task want the same category at the
\* same time; one scans, the other is queued on the lock
C7_Witness ==
    \E p, q \in Callers :
        /\ pc[p] = "scan"
        /\ pc[q] = "wait"
        /\ cat[p] = cat[q]
        /\ Forced(task[p]) # Forced(task[q])

\* C8: when a background refresh of a category fails, that category's cache
\* still holds the snapshot it held before the refresh.
C8_FailedRefreshKeepsSnapshot ==
    [][\A p \in Callers :
          (/\ task[p] = "background"
           /\ ScanEnds(p)
           /\ scanFailed'[cat[p]]
           /\ cache[cat[p]].data # "None")
          => cache'[cat[p]] = cache[cat[p]]]_vars

(***************************************************************************)
(* Properties of direct delivery (checked under SpecDirect).               *)
(***************************************************************************)
\* the Range header is "bytes=s-e"
RangeIs(s, e) == range_header = BytesPrefix \o IntToStr(s) \o <<DASH>> \o IntToStr(e)

\* the source bytes s..e
SourceBytes(s, e) == [i \in 1..(e - s + 1) |-> s + i - 1]

\* the response has been delivered without a client disconnect or a source
\* error
CleanEnd == dpc = "done" /\ ~clientGone /\ ~srcFailed

\* C9: for a source of size N and Range: bytes=s-e with 0 <= s <= e < N the
\* response has status 206, Content-Range bytes s-e/N, Content-Length
\* e-s+1 and (absent client disconnect or read error) a body of exactly the
\* source bytes s..e.
C9_RangeDelivery ==
    \A s, e \in 0..9 :
        (RangeIs(s, e) /\ s <= e /\ e < file_size /\ dpc # "start")
        => /\ status = 206
           /\ contentRange = <<s, e, file_size>>
           /\ contentLength = e - s + 1
           /\ CleanEnd => body = SourceBytes(s, e)

\* C10 as stated: a Range header whose bounds do not satisfy
\* 0 <= start <= end < size is answered 416 with no file bytes, and a
\* request without a Range header is answered 200 with Content-Length equal
\* to the file size.
C10_InvalidRangeIs416 ==
    /\ \A s, e \in 0..9 :
          (RangeIs(s, e) /\ ~(s <= e /\ e < file_size) /\ dpc # "start")
          => (status = 416 /\ body = <<>> /\ returned = "416")
    /\ (range_header = <<>> /\ dpc # "start")
          => (status = 200 /\ contentLength = file_size)

\* C10 amended: a Range header bytes=s-e is answered 416 with no file bytes
\* exactly when s > min(e, size - 1); an end at or beyond the size is
\* clamped to size - 1 and the range s..min(e, size - 1) is answered 206; a
\* request without a Range header is answered 200 with Content-Length equal
\* to the file size.
C10_ClampedRange ==
    /\ \A s, e \in 0..9 :
          (RangeIs(s, e) /\ dpc # "start")
          => LET last == IF e < file_size - 1 THEN e ELSE file_size - 1 IN
             IF s > last
             THEN status = 416 /\ body = <<>> /\ returned = "416"
             ELSE /\ status = 206
                  /\ contentRange = <<s, last, file_size>>
                  /\ contentLength = last - s + 1
    /\ (range_header = <<>> /\ dpc # "start")
          => (status = 200 /\ contentLength = file_size)

\* C10 witness: a well-ordered range that starts beyond the last byte has
\* been answered 416
C10_Witness ==
    /\ \E s, e \in 0..9 : RangeIs(s, e) /\ s <= e /\ s >= file_size
    /\ file_size > 0
    /\ status = 416
    /\ dpc = "done"
    /\ body = <<>>

(***************************************************************************)
(* Properties of the token endpoints (checked under SpecGate).             *)
(***************************************************************************)
\* a /stream request passed the pre-flight checks: its token verified and
\* names a file with a recognized video extension
StreamDecided ==
    /\ endpoint = "stream"
    /\ verdict # <<>>
    /\ verdict[1].kind = "path"
    /\ _is_video_file(Basename(verdict[1].path))

\* name of the file the verified token stands for
TokenFile == Basename(verdict[1].path)

\* C11: on /d, /stream, /video and /subtitle a request without a token is
\* answered 400 and a request whose token fails verify_token (malformed, bad
\* signature, expired) is answered 403; /stream and /video answer 400 when
\* the token's file has no recognized video extension.
C11_PreflightStatus ==
    endpoint # "none" =>
        /\ presented = <<>> => decision = "400"
        /\ (presented # <<>> /\ verdict[1].kind # "path") => decision = "403"
        /\ (/\ endpoint \in {"stream", "video"}
            /\ presented # <<>>
            /\ verdict[1].kind = "path"
            /\ verdict[1].path # <<>>
            /\ ~_is_video_file(TokenFile)) => decision = "400"

\* the request needs the encoder: it is not a direct delivery of a natively
\* playable container
NeedsEncoder ==
    ~(EffectiveQuality(TokenFile, quality) = QDirect /\ IsNativeContainer(TokenFile))

OtherQualityRequested == Lower(quality) \in {QRemux, Q1080p, Q720p, Q480p}

\* remux is asked for: by the parameter, or by default for a container that
\* is not natively playable when the parameter names no known quality
RemuxRequested ==
    \/ Lower(quality) = QRemux
    \/ /\ Lower(quality) \notin {QDirect, Q1080p, Q720p, Q480p}
       /\ ~IsNativeContainer(TokenFile)

\* the decision the claim describes
ClaimedStrategy ==
    IF IsNativeContainer(TokenFile) /\ ~OtherQualityRequested THEN "direct"
    ELSE IF RemuxRequested /\ probe = "compatible" THEN "remux"
    ELSE "transcode"

C12_MissingFileIs404 ==
    missing =>
        /\ dl_pc = "done" => dl_status = 404
        /\ returned # "none" => status = 404

\* C15: for every remux or transcode request, whatever ends it, teardown
\* eventually completes with the encoder's stdin closed, the source session
\* closed and the encoder process exited; the handler never waits forever.
C15_TeardownCompletes ==
    (enc_proc = "running") ~>
        (/\ enc_pc = "done"
         /\ enc_proc = "exited"
         /\ enc_stdin = "closed"
         /\ enc_session # "open")

\* C16: in plain download, once a write to the client fails because the
\* client is gone, the stop flag is set and the reader thread eventually
\* exits with its remote session closed, whatever the occupancy of the queue
\* at that moment.
C16_ReaderExitsAfterStop ==
    dl_stop ~> (dl_ppc = "done" /\ dl_session # "open")

\* s is a prefix of t
IsPrefix(s, t) == Len(s) <= Len(t) /\ SubSeq(t, 1, Len(s)) = s

OpRunning(o) == op_pc[o] \in {"body", "finally_return", "finally_raise"}

\* the operation has returned or raised
OpEnded(o) == op_pc[o] \in {"returned", "raised"}

Pruned(t, ds) == t \ Below(t, ds)

\* a scan has ended in which the listing of a subdirectory, not of the root,
\* failed
SubdirListingFailed(o) ==
    /\ op_kind[o] \in ScanKinds
    /\ OpEnded(o)
    /\ op_failed[o] # {}
    /\ ScanRoot \notin op_failed[o]

\* the failed branch contributes nothing and the scan returns what every
\* other branch holds
ListingFailureSkipped(o) ==
    /\ op_pc[o] = "returned"
    /\ op_result[o] =
          ScanResult(op_kind[o], Pruned(remote_tree, op_failed[o]), {})

\* C19: in scan_library, scan_movies, scan_tv and scan_music a failure while
\* listing one subdirectory is logged, makes that branch contribute no
\* entries and does not abort the scan: the entries of every other branch
\* are still returned.
C19_ListingFailureLoggedAndSkipped ==
    \A o \in ScanOps :
        SubdirListingFailed(o) =>
            /\ \E i \in 1..Len(scan_log) : scan_log[i].msg = "listing failed"
            /\ ListingFailureSkipped(o)

\* the titles an author directory holds: its subdirectories that directly
\* contain an entry with a matching name, and its own matching files
ClaimedBooks(t, a) ==
    {_clean_title(Node(d).name) :
        d \in {x \in Children(t, a) :
                  /\ Node(x).dir
                  /\ \E f \in Children(t, x) : _matches_extension(Node(f).name)}}
    \cup
    {_clean_title(_strip_extension(Node(f).name)) :
        f \in {x \in Children(t, a) :
                  ~Node(x).dir /\ _matches_extension(Node(x).name)}}

\* the (author, title) pairs of the root-level files named
\* "Author - Title.ext", those whose names start with '.' only when dotted
ClaimedFlat(t, dotted) ==
    {FlatMatch(_strip_extension(Node(f).name))[1] :
        f \in {x \in Children(t, ScanRoot) :
                  /\ ~Node(x).dir
                  /\ _matches_extension(Node(x).name)
                  /\ FlatMatch(_strip_extension(Node(x).name)) # <<>>
                  /\ dotted \/ Node(x).name[1] # DOT}}

ClaimedLibrary(t, dotted) ==
    UNION {{<<Node(a).name, b>> : b \in ClaimedBooks(t, a)} :
              a \in {x \in Children(t, ScanRoot) : Node(x).dir}}
    \cup ClaimedFlat(t, dotted)

\* {Alice: [Book1, Book2], Bob: [BobBook]}
ExampleCatalog ==
    {<<NameAlice, TitleBook1>>, <<NameAlice, TitleBook2>>,
     <<KeyBob, TitleBobBook>>}

StrictlyAscending(xs) ==
    \A i \in 1..(Len(xs) - 1) : LexLess(xs[i], xs[i + 1])

\* the titles the scan found for the group
TitlesOf(o, k) == {p[2] : p \in {q \in op_result[o] : q[1] = k}}

\* C21: in every catalog returned by scan_library, scan_movies, scan_tv or
\* scan_music the titles of each group (and the flat movie list) contain no
\* duplicates and are in ascending lexicographic order, also after flat-file
\* titles were merged into an existing author's group.
C21_TitlesSortedUnique ==
    \A o \in ScanOps :
        op_kind[o] \in ScanKinds /\ op_pc[o] = "returned" =>
            \A r \in op_catalog[o] :
                /\ StrictlyAscending(r.titles)
                /\ Elems(r.titles) = TitlesOf(o, r.key)

\* C21 witness: scan_library has returned after a flat file added a title
\* that Alice's directory holds already, and Alice's list is Book1, Book2
C21_Witness ==
    /\ op_kind[1] = "scan_library"
    /\ op_pc[1] = "returned"
    /\ {1, 3, 5, 6, 8} \subseteq remote_tree
    /\ unlistable = {}
    /\ \E r \in op_catalog[1] :
          /\ r.key = NameAlice
          /\ SubSeq(r.titles, 1, 2) = <<TitleBook1, TitleBook2>>

\* the extensions of a category
ExtsOf(kind) == IF kind = "books" THEN file_extensions ELSE media_extensions

\* the name matches the wanted one: equal, or equal after normalization
ItemMatches(item, wanted) ==
    item = wanted \/ _normalize_title(item) = _normalize_title(wanted)

\* the groups a selector names: the directories of the root whose name
\* equals or contains the group, in any case
ClaimedGroups(t, group) ==
    {g \in Children(t, ScanRoot) :
        /\ Node(g).dir
        /\ Contains(Lower(Node(g).name), Lower(group))}

\* the flat file "Author - Title.ext" belongs to the group and is the item
ClaimedFlatFile(n, sel) ==
    LET m == FlatMatch(_strip_extension(Node(n).name))
    IN  /\ _matches_extension(Node(n).name)
        /\ m # <<>>
        /\ Contains(Lower(m[1][1]), Lower(sel.author))
        /\ sel.title # <<>> => ItemMatches(m[1][2], sel.title[1])

\* the files a selector stands for: those of its groups, directly or (but
\* for movies) one directory down, that have an extension of the category
\* and, for a composite selector, the item's name; the flat files of the
\* books root are files of their author, a file of the movies root is a
\* group
ClaimedFiles(kind, name, t) ==
    LET sel == ParseSelector(name)
        groups == ClaimedGroups(t, sel.author)
        inside == {f \in t :
                     /\ ~Node(f).dir
                     /\ \/ Node(f).parent \in groups
                        \/ /\ kind # "movies"
                           /\ Node(f).parent \in t
                           /\ Node(Node(f).parent).parent \in groups
                     /\ _matches_any_ext(Node(f).name, ExtsOf(kind))
                     /\ sel.title # <<>> =>
                           ItemMatches(_strip_any_ext(Node(f).name,
                                                      ExtsOf(kind)),
                                       sel.title[1])}
        atRoot == {f \in Children(t, ScanRoot) :
                     /\ ~Node(f).dir
                     /\ \/ kind = "books" /\ ClaimedFlatFile(f, sel)
                        \/ /\ kind = "movies"
                           /\ sel.title = <<>>
                           /\ _matches_any_ext(Node(f).name, ExtsOf(kind))
                           /\ Contains(
                                  Lower(_strip_any_ext(Node(f).name,
                                                       ExtsOf(kind))),
                                  Lower(sel.author))}
    IN  inside \cup atRoot

\* C22: resolve accepts, for every category, a bare group name or a composite
\* 'Group | Item' selector: it raises only when a directory cannot be listed,
\* and it returns, each with its size, the files of the groups whose name
\* equals or contains the group in any case, for a composite selector only
\* those whose item name is the item, exactly or after normalization.
C22_ResolveBySelector ==
    \A o \in ScanOps :
        op_kind[o] \in CollectKinds =>
            /\ op_pc[o] = "raised" => op_failed[o] \subseteq unlistable
            /\ op_pc[o] = "returned" =>
                  Elems(op_files[o]) =
                      {<<PathOf(n), SizeOf(n)>> :
                          n \in ClaimedFiles(op_args[o].kind,
                                             op_args[o].name, remote_tree)}

\* the files a link operation has to give links for: all that
\* _collect_files_sync resolves, for player links the video files among them
\* and none for a kind other than movies and tv
FilesToLink(o) ==
    LET resolved == _collect_files_sync(op_args[o].kind, op_args[o].name,
                                        remote_tree)
    IN  IF op_kind[o] = "build_links" THEN resolved
        ELSE IF op_args[o].kind \in {"movies", "tv"}
        THEN SelectSeq(resolved, IsVideoEntry)
        ELSE <<>>

\* the item is the link of the file: its name, its size, a url of the right
\* handler, and a token that yields the file's path at every time from the
\* signing to the signing time plus link_ttl_seconds
IsLinkOf(item, file, prefix, minted) ==
    /\ item.filename = Basename(file[1])
    /\ item.size = file[2]
    /\ StartsWith(item.url, BaseUrl \o prefix)
    /\ \A t \in minted..MaxTime :
          t <= minted + LinkTtl =>
              verify_token(QueryToken(item.url), t) = Accepted(file[1])

C24_RemoteCallsInWorkerPool ==
    \A r \in CallRequests : \A c \in th_done[r] : c.thread = "worker"

\* C25: during remux and transcode, when the encoder neither exits nor emits
\* output for the timeout period, the shared stop flag is set and the stream
\* is aborted; the flag is likewise set after the client has disconnected
\* and after the encoder has exited.
C25_SilenceSetsStopFlag ==
    /\ (enc_proc = "hung" /\ enc_pc = "read" /\ enc_out = <<>>) ~> enc_stop
    /\ enc_gone ~> enc_stop
    /\ (enc_proc = "exited") ~> enc_stop

\* C26: once the stop flag of a remux or transcode stream is set, whichever
\* side set it, the source reader stops without reading another chunk, then
\* the encoder's input pipe is closed, then the encoder's exit is awaited:
\* the reader does stop, no chunk is read after the flag is set, and the exit
\* is awaited only after the reader has stopped and the pipe is closed.
C26_TeardownInOrder ==
    /\ enc_stop ~> (enc_fpc = "done" /\ enc_stdin = "closed")
    /\ [][enc_stop => enc_pos' = enc_pos]_vars
    /\ [](enc_pc \in {"await_proc", "done"} =>
              enc_fpc = "done" /\ enc_stdin = "closed")

\* the link's token yields the path of a video file
IsStreamable(l) == l.path # <<>> /\ _is_video_file(Basename(l.path))

C28_SignatureCoversSegmentsAsWritten ==
    (link # <<>> /\ verdict # <<>> /\ verdict[1].kind = "path") =>
        LET parts == Split(presented, DOT)
        IN  /\ Len(parts) = 3
            /\ parts[3] = HmacHex(Secret,
                               Utf8Encode(parts[1] \o <<DOT>> \o parts[2]).val)
            /\ presented = sign_path(verdict[1].path, ParseInt(parts[2]).val)

(***************************************************************************)
(* Properties of the unforced get-or-scan call (checked under SpecCache).  *)
(***************************************************************************)
\* in this step the unforced task p goes from the double-check into a scan
StartsScan(p) ==
    /\ task'[p] = "browse"
    /\ pc'[p] = "scan"
    /\ <<pc[p], cat[p]>> # <<pc'[p], cat'[p]>>

\* in this step the unforced task p gets its answer for category c
Returns(p, c) == task'[p] = "browse" /\ ret[p][c] = Unset /\ ret'[p][c] # Unset

\* the answer is the cached snapshot, still fresh, read before or under the lock
ReturnsFreshSnapshot(p, c) ==
    /\ ret'[p][c].via \in {"read", "recheck"}
    /\ ret'[p][c].val = FreshSet(c)
    /\ FreshSet(c) # "None"

\* the answer is what the scan awaited by this call produced: the call was
\* in the scan of c, and the value it hands back is the one it stores now
ReturnsOwnScan(p, c) ==
    /\ ret'[p][c].via = "scan"
    /\ pc[p] = "scan" /\ cat[p] = c
    /\ ret'[p][c].val # "raised"
    /\ lastSet'[c] = [val |-> ret'[p][c].val, at |-> now]

\* a scan that raises leaves the call without a return value
ScanRaises(p, c) == ret'[p][c].via = "scan" /\ ret'[p][c].val = "raised"

\* the answer is the empty catalog given for a category with no root path
ReturnsEmptyUnconfigured(p, c) ==
    /\ ret'[p][c] = [via |-> "guard", val |-> "empty"]
    /\ c # "books"
    /\ ~rootConfigured[c]

\* C29 as stated: an unforced get-or-scan caller re-checks the cache under
\* the lock and never starts a scan while the cache holds a fresh snapshot;
\* the value it returns is the fresh cached snapshot or the result of a scan
\* completed during that call.
C29_FreshOrOwnScan ==
    [][\A p \in Callers :
          /\ StartsScan(p) =>
                /\ lockHolder'[cat'[p]] = p
                /\ FreshSet(cat'[p]) = "None"
          /\ \A c \in Cats : Returns(p, c) =>
                \/ ReturnsFreshSnapshot(p, c)
                \/ ReturnsOwnScan(p, c)
                \/ ScanRaises(p, c)]_vars

\* C29 amended: ... the value it returns is the fresh cached snapshot, the
\* result of a scan completed during that call, or, for movies, tv and music
\* with no root path configured, an empty catalog given without reading the
\* cache or scanning.
C29_FreshOwnScanOrUnconfigured ==
    [][\A p \in Callers :
          /\ StartsScan(p) =>
                /\ lockHolder'[cat'[p]] = p
                /\ FreshSet(cat'[p]) = "None"
          /\ \A c \in Cats : Returns(p, c) =>
                \/ ReturnsFreshSnapshot(p, c)
                \/ ReturnsOwnScan(p, c)
                \/ ScanRaises(p, c)
                \/ ReturnsEmptyUnconfigured(p, c)]_vars

\* C29 witness: an unforced call has returned the catalog of its own scan
\* for one category, a fresh snapshot found under the lock for another, and
\* the empty catalog of an unconfigured root for a third
C29_Witness ==
    \E p \in Callers : \E c1, c2, c3 \in Cats :
        /\ task[p] = "browse"
        /\ ret[p][c1].via = "scan" /\ ret[p][c1].val \in Snapshots
        /\ ret[p][c2].via = "recheck"
        /\ ret[p][c3].via = "guard"


(***************************************************************************)
(* Failures after resp.prepare (checked under SpecDelivery).               *)
(***************************************************************************)
\* resp.prepare has sent the status line and headers of the direct response
DirectPrepared == status \in {200, 206}

\* C30: once a streaming response has been prepared on /d or /stream, a
\* later failure never results in a different status or a second response
\* object: whatever fails afterwards, what the handler returns is the
\* response it prepared, with the status it was prepared with.
C30_StartedResponseIsReturned ==
    /\ DirectPrepared => returned \in {"none", "resp"}
    /\ dl_pc \in {"get", "write", "done"} => dl_status = 200
    /\ enc_pc \in {"read", "write", "await_feeder", "await_proc", "done"}
          => enc_status = 200


(***************************************************************************)
(* Concurrent encoder sessions (checked under SpecPool).                   *)
(***************************************************************************)
\* the requests whose encoder process is alive
EncodersAlive == {r \in StreamRequests : ts_proc[r] = "alive"}

\* C31: the number of encoder processes (remux or transcode sessions) alive
\* at the same time never exceeds cfg.max_concurrent_streams, for any number
\* of concurrent /stream requests.
C31_EncodersWithinLimit == Cardinality(EncodersAlive) <= max_concurrent_streams


(***************************************************************************)
(* The height a transcode is scaled to (checked under SpecGate).           *)
(***************************************************************************)
\* the height the requested quality names, 0 when it names none
RequestedHeight ==
    IF Lower(quality) = Q1080p THEN 1080
    ELSE IF Lower(quality) = Q720p THEN 720
    ELSE IF Lower(quality) = Q480p THEN 480
    ELSE 0

\* C32: a transcode is scaled to a target height only when the requested
\* quality is 1080p, 720p or 480p, and then to exactly that height; a request
\* that reaches transcoding with any other quality is transcoded at source
\* resolution (no target height).
C32_ScaledOnlyWhenAsked ==
    decision = "transcode" => target_height = RequestedHeight


(***************************************************************************)
(* Properties of the TV catalog (checked under SpecScan).                  *)
(***************************************************************************)
\* how many directories lie between the show s and the file f of tree t:
\* 0 directly inside, 1 in a season folder, -1 when f is not that near
LevelsBelow(t, s, f) ==
    IF Node(f).parent = s THEN 0
    ELSE IF Node(f).parent \in t /\ Node(Node(f).parent).parent = s THEN 1
    ELSE -1

\* the labels of the matching files of t at most one level below the show
ClaimedEpisodes(t, s) ==
    {_clean_title(_strip_any_ext(Node(f).name, file_extensions)) :
        f \in {x \in t : /\ ~Node(x).dir
                         /\ _matches_any_ext(Node(x).name, file_extensions)
                         /\ LevelsBelow(t, s, x) \in {0, 1}}}

\* the shows are the directories of the root
ClaimedTv(t) ==
    UNION {{<<Node(s).name, ep>> : ep \in ClaimedEpisodes(t, s)} :
              s \in {x \in Children(t, ScanRoot) : Node(x).dir}}

\* C33: scan_tv lists as episodes of a show exactly the matching files
\* directly inside the show directory or exactly one directory level deeper;
\* a matching file two or more levels below the show is never listed,
\* top-level flat files are not shows, and a show with no such episode is
\* omitted from the catalog.  (Directories whose listing raised contribute
\* nothing.)
C33_TvEpisodesAtMostOneLevelDown ==
    \A o \in ScanOps :
        op_kind[o] = "scan_tv" /\ op_pc[o] = "returned" =>
            LET t == Pruned(remote_tree, op_failed[o]) IN
            /\ op_result[o] = ClaimedTv(t)
            /\ {r.key : r \in op_catalog[o]} = {p[1] : p \in ClaimedTv(t)}
            /\ \A r \in op_catalog[o] :
                  /\ r.titles # <<>>
                  /\ \E s \in Children(t, ScanRoot) :
                        Node(s).dir /\ Node(s).name = r.key

\* C33 witness: scan_tv has returned for a tree with a show that holds an
\* episode of its own, a season folder with one and a matching file two
\* folders down, next to flat files under the root; the catalog is that one
\* show with the episodes of the first two levels
C33_Witness ==
    /\ op_kind[1] = "scan_tv"
    /\ op_pc[1] = "returned"
    /\ remote_tree = {1, 2, 3, 5, 6, 7, 8, 10, 11}
    /\ unlistable = {}
    /\ op_result[1] = {<<NameAlice, TitleBook1>>, <<NameAlice, TitleBook2>>}


(***************************************************************************)
(* Nothing is served without a verified token (checked under SpecGate).    *)
(***************************************************************************)
\* the handler has opened a remote session or made a body for its response
RequestServed == remote_calls # {} \/ body_kind # "none"

\* C34: on /d, /stream, /video, /subtitle and /info no remote session is
\* opened and no response body byte is written for a request unless
\* verify_token has already succeeded for that request's token; on /d and
\* /stream the only remote file whose bytes are streamed is the path encoded
\* in that token, which is the path the token was signed for.  (The body
\* meant is the one the handler makes after its checks; the text of a 400 or
\* 403 answer is not counted.)
C34_NothingServedUnverified ==
    RequestServed =>
        /\ presented # <<>>
        /\ verify_token(presented, verifiedAt) = Accepted(link[1].path)
        /\ verifiedAt <= link[1].exp
        /\ endpoint \in {"d", "stream"} =>
              /\ body_path = <<link[1].path>>
              /\ \A c \in remote_calls : c.path = link[1].path

\* C34 witness: a /stream request with the minted token has been served from
\* the token's file, whose name is not empty
C34_Witness ==
    /\ endpoint = "stream"
    /\ RequestServed
    /\ presented = link[1].token
    /\ body_path = <<link[1].path>>
    /\ Len(link[1].path) > 4


(***************************************************************************)
(* Body length against Content-Length (checked under SpecDirect).          *)
(***************************************************************************)
\* the direct response was prepared and the handler has returned it without
\* a client disconnect, a source error or an abandoned enqueue
EndedUndisturbed ==
    /\ dpc = "done"
    /\ returned = "resp"
    /\ ~clientGone
    /\ ~srcFailed
    /\ ~putTimedOut

\* C35: for every direct /stream response that ends without a client
\* disconnect or a source read error, the number of body bytes written
\* equals the Content-Length header that was sent, for every value of the
\* Range header, the malformed ones included.  (Stated here for responses
\* during which no enqueue timed out either.)
C35_BodyMatchesContentLength == EndedUndisturbed => Len(body) = contentLength


(***************************************************************************)
(* Direct delivery to a slow client (checked under SpecSlowClient).        *)
(***************************************************************************)
\* the handler takes the end sentinel off the queue, nothing having failed
SentinelConsumed ==
    /\ dpc = "get"
    /\ dpc' = "finally"
    /\ returned' = "resp"
    /\ ~clientGone
    /\ ~srcFailed

\* C36: in direct delivery, if the client never disconnects and the source
\* never fails, the response body eventually contains the whole requested
\* range however slowly the client reads, pauses longer than the reader
\* thread's enqueue timeout included; the end sentinel is never consumed
\* before the last chunk of the range.
C36_WholeRangeToSlowClient ==
    /\ (dpc = "get") ~> (body = SourceBytes(start, end) \/ clientGone \/ srcFailed)
    /\ [][SentinelConsumed => body = SourceBytes(start, end)]_vars


(***************************************************************************)
(* Completion of a remux or transcode (checked under SpecEncoderFair).     *)
(***************************************************************************)
\* the request is over with all encoder output delivered and the encoder
\* exited
EncodeComplete ==
    /\ enc_pc = "done"
    /\ enc_proc = "exited"
    /\ enc_pending = 0
    /\ enc_out = <<>>
    /\ enc_body = [i \in 1..enc_emitted |-> i]

\* what the claim sets aside: the client went away, the encoder died, or the
\* feeder ended before the end of the source
EncodeDisturbed ==
    \/ enc_gone
    \/ enc_crashed
    \/ enc_fpc \in {"closing", "done"} /\ enc_pos < enc_size

\* C37: a remux or transcode of a finite source to a client that keeps
\* reading eventually completes with all encoder output delivered and the
\* encoder exited, whatever amount of diagnostics the encoder writes to its
\* stderr pipe.  (Stated from the moment the feeder has opened the source.)
C37_EncodeCompletesDespiteDiagnostics ==
    (enc_proc = "running" /\ enc_fpc = "loop")
        ~> (EncodeComplete \/ EncodeDisturbed)


(***************************************************************************)
(* A scan followed by the resolve of an entry it offered (SpecOffer).      *)
(***************************************************************************)
\* the kind a selection view passes to /links for the entries of a scan
CategoryOf(scan) ==
    CASE scan = "scan_library" -> "books"
      [] scan = "scan_movies" -> "movies"
      [] scan = "scan_tv" -> "tv"
      [] scan = "scan_music" -> "music"

\* the entries a selection view lists from a catalog: the keys of the dict,
\* for movies the titles of the list
OfferedEntries(scan, catalog) ==
    IF scan = "scan_movies"
    THEN UNION {{r.titles[i] : i \in 1..Len(r.titles)} : r \in catalog}
    ELSE {r.key : r \in catalog}

\* on_item_selected: the entry picked from the scan's list is resolved with
\* the category of the view
OfferSelected ==
    /\ op_pc[1] = "returned"
    /\ op_kind[1] \in ScanKinds
    /\ \E name \in OfferedEntries(op_kind[1], op_catalog[1]) :
          OpConnect(2, "_collect_files_sync",
                    [kind |-> CategoryOf(op_kind[1]), name |-> name])

\* any remote tree, every directory of which can be listed
InitOffer ==
    /\ now = StartTime
    /\ TokenIdle
    /\ CacheIdle
    /\ rootConfigured = [c \in Cats |-> TRUE]
    /\ DirectIdle
    /\ GateIdle
    /\ missing = FALSE
    /\ DownloadIdle
    /\ EncoderIdle
    /\ remote_tree \in Trees
    /\ unlistable = {}
    /\ ScanOpsIdle

\* one scan, then one resolve of an entry of its catalog, the tree unchanged
NextOffer ==
    \/ \E kind \in ScanKinds : OpConnect(1, kind, NoArgs)
    \/ ScanBody(1)
    \/ OpClose(1)
    \/ OfferSelected
    \/ CollectFilesBody(2)
    \/ OpClose(2)

SpecOffer == InitOffer /\ [][NextOffer]_vars

\* the resolve of the offered entry is over
OfferResolved == op_pc[2] \in {"collected", "returned", "raised"}

\* C38: with the remote tree unchanged, every entry a scan offers for
\* selection (author key, movie title, show key, artist key) resolves through
\* _collect_files_sync with the matching kind to at least one file, without
\* raising.
C38_OfferedEntryResolves ==
    OfferResolved => op_pc[2] # "raised" /\ op_files[2] # <<>>


(***************************************************************************)
(* Book lookups: find_book_file and the resolve of the same book           *)
(* (SpecLookup).                                                           *)
(***************************************************************************)
\* the entries of the trees a lookup runs on: the author directories
\* "Alice" and "Ali", listed in this order, and a flat file of "Bob"
LookupNodes == {1, 2, 5, 6, 8, 14, 15}

\* the authors and titles looked up: "ali", "Alice", "Bob", "Zed" and
\* "Book1", "Book2", "BobBook"
LookupAuthors == {SelAli, NameAlice, KeyBob, KeyZed}
LookupTitles == {TitleBook1, TitleBook2, TitleBobBook}

\* the selector "author | title"
BookSelector(author, title) == author \o <<SPACE, 124, SPACE>> \o title

InitLookup ==
    /\ now = StartTime
    /\ TokenIdle
    /\ CacheIdle
    /\ rootConfigured = [c \in Cats |-> TRUE]
    /\ DirectIdle
    /\ GateIdle
    /\ missing = FALSE
    /\ DownloadIdle
    /\ EncoderIdle
    /\ remote_tree \in {t \in SUBSET LookupNodes :
                           \A n \in t : Node(n).parent \in Dirs(t)}
    /\ unlistable \in {{}} \cup {{d} : d \in Dirs(remote_tree)}
    /\ ScanOpsIdle

\* _collect_files_sync('books', 'author | title') for the book that
\* find_book_file was called with
ResolveSameBook ==
    /\ op_kind[1] = "find_book_file"
    /\ op_pc[1] = "returned"
    /\ OpConnect(2, "_collect_files_sync",
                 [kind |-> "books",
                  name |-> BookSelector(op_args[1].name, op_args[1].title)])

\* find_book_file of a book, then the resolve of the same book or of an
\* author, the tree unchanged
NextLookup ==
    \/ \E author \in LookupAuthors, title \in LookupTitles :
          OpConnect(1, "find_book_file",
                    [kind |-> "books", name |-> author, title |-> title])
    \/ FindBookFileBody(1)
    \/ OpClose(1)
    \/ ResolveSameBook
    \/ \E author \in LookupAuthors :
          /\ op_pc[1] = "idle"
          /\ OpConnect(2, "_collect_files_sync",
                       [kind |-> "books", name |-> author])
    \/ CollectFilesBody(2)
    \/ OpClose(2)

SpecLookup == InitLookup /\ [][NextLookup]_vars

\* the root entries whose name equals the author, letter case aside
ExactEntries(t, author) ==
    {n \in Children(t, ScanRoot) : Lower(Node(n).name) = Lower(author)}

\* C39: for books, when an entry under the root equals the selected author
\* name case-insensitively, _collect_files_sync returns files from that
\* entry only, also when another entry whose name merely contains the author
\* name is listed earlier in the root directory.
C39_ExactAuthorEntryOnly ==
    (op_kind[2] = "_collect_files_sync" /\ op_pc[2] = "returned") =>
        LET exact == ExactEntries(remote_tree,
                                  ParseSelector(op_args[2].name).author)
        IN  exact # {} =>
                \A i \in 1..Len(op_files[2]) :
                    \E n \in Below(remote_tree, exact) :
                        op_files[2][i][1] = PathOf(n)

\* find_book_file and the resolve of the same book have both returned
BothReturned ==
    /\ op_kind[1] = "find_book_file"
    /\ op_pc[1] = "returned"
    /\ op_pc[2] = "returned"
    /\ op_args[2].name = BookSelector(op_args[1].name, op_args[1].title)

\* C40: on the same remote tree, whenever find_book_file(author, title)
\* returns (path, size), that path is among the files returned by
\* _collect_files_sync('books', 'author | title'), and it returns None only
\* when that resolve result is empty.  (Stated for resolves that return.)
C40_FindIsSingleResultOfResolve ==
    BothReturned =>
        /\ \A i \in 1..Len(op_files[1]) :
               \E j \in 1..Len(op_files[2]) :
                   op_files[2][j][1] = op_files[1][i][1]
        /\ op_files[1] = <<>> => op_files[2] = <<>>

====
